---- MODULE Spec2Model ----
(***************************************************************************)
(* Query planner (Planner.ts) and result composer (Composer / Executor)    *)
(* of the stitch repository, as a state machine.                           *)
(*                                                                         *)
(* Part 1: the super-schema and the parsed query documents.                *)
(* Part 2: the Planner as operators over query documents.                  *)
(* Part 3: the subschema executors (environment).                          *)
(* Part 4: the Composer as operators over a composer state.                *)
(* Part 5: state, actions and specifications.                              *)
(* Part 6: properties.                                                     *)
(* Part 7: the entry point: buildExecutionContext, execute, subscribe.     *)
(* Part 8: the Consolidator of lazy sequences.                             *)
(* Part 9: the construction of the SuperSchema.                            *)
(* Part 10: SuperSchema.getVariableValues with an error limit.             *)
(* Part 11: the planner's choice of a subschema.                           *)
(* Part 12: two results with one response key.                             *)
(* Part 13: properties of the stitch walk and of the end of a run.         *)
(* Part 14: objects of a possible type without a supplemental plan.        *)
(* Part 15: null at a stitch point.                                        *)
(* Part 16: PlanResult.execute, promise by promise.                        *)
(* Part 17: a source of the Consolidator fails.                            *)
(***************************************************************************)
EXTENDS Integers, Sequences, FiniteSets, TLC

(***************************************************************************)
(* Bounds                                                                  *)
(***************************************************************************)
\* number of subschema results that may be something else than plain data
MaxFaults == 2
\* number of elements a subschema returns for a list field
ListLen == 2
\* number of root selections of a planned operation
MaxRootFields == 2
\* number of values a source of the Consolidator yields before it is done
MaxValues == 2
\* number of variable definitions of a call of getVariableValues
MaxVarDefs == 3
\* largest maxErrors a call of getVariableValues is given
MaxErrorLimit == 2

(***************************************************************************)
(* Part 1: super-schema and documents                                      *)
(***************************************************************************)
Undefined == "undefined"
TypeNameMetaFieldDef == "__typename"
StitchingTypename == "__stitching__typename"

\* the subschemas, in the order they are handed to the SuperSchema
Subschemas == <<"A", "B", "C">>

TypeNames == {"Query", "User", "Profile", "Item", "Node", "Ghost"}

\* the input schemas: subschema -> type -> fields the subschema defines
SchemaSplit ==
  [ A |-> [ Query   |-> {"a", "user", "items", "node", "nodes", "ghost"},
            User    |-> {"id", "name", "profile"},
            Profile |-> {"bio"},
            Item    |-> {"id", "sku"},
            Node    |-> {"id"},
            Ghost   |-> {"id"} ],
    B |-> [ Query   |-> {"b"},
            User    |-> {"id", "email", "friend"},
            Profile |-> {"site"},
            Item    |-> {"id", "price"},
            Node    |-> {},
            Ghost   |-> {"tag"} ],
    C |-> [ Query   |-> {},
            User    |-> {"phone"},
            Profile |-> {},
            Item    |-> {},
            Node    |-> {},
            Ghost   |-> {} ] ]

\* a second set of input schemas, with fields defined by several subschemas
\* and with a subscription root type
SchemaOverlap ==
  [ A |-> [ Query   |-> {"a", "user", "items", "node", "nodes", "ghost"},
            User    |-> {"id", "name", "profile"},
            Profile |-> {"bio"},
            Item    |-> {"id", "sku"},
            Node    |-> {"id"},
            Ghost   |-> {"id"},
            Subscription |-> {"tick"} ],
    B |-> [ Query   |-> {"a", "b", "user"},
            User    |-> {"id", "name", "email", "friend"},
            Profile |-> {"bio", "site"},
            Item    |-> {"id", "price"},
            Node    |-> {"id"},
            Ghost   |-> {"tag"},
            Subscription |-> {"tick"} ],
    C |-> [ Query   |-> {"b"},
            User    |-> {"email", "phone"},
            Profile |-> {},
            Item    |-> {},
            Node    |-> {},
            Ghost   |-> {},
            Subscription |-> {} ] ]

SchemaChoices == {SchemaSplit, SchemaOverlap}

\* merged field definitions: type -> field -> named return type and list-ness
MergedFields ==
  [ Query   |-> [ a     |-> [type |-> "Int", list |-> FALSE],
                  b     |-> [type |-> "Int", list |-> FALSE],
                  user  |-> [type |-> "User", list |-> FALSE],
                  items |-> [type |-> "Item", list |-> TRUE],
                  node  |-> [type |-> "Node", list |-> FALSE],
                  nodes |-> [type |-> "Node", list |-> TRUE],
                  ghost |-> [type |-> "Ghost", list |-> FALSE] ],
    User    |-> [ id      |-> [type |-> "ID", list |-> FALSE],
                  name    |-> [type |-> "String", list |-> FALSE],
                  email   |-> [type |-> "String", list |-> FALSE],
                  phone   |-> [type |-> "String", list |-> FALSE],
                  friend  |-> [type |-> "User", list |-> FALSE],
                  profile |-> [type |-> "Profile", list |-> FALSE] ],
    Profile |-> [ bio  |-> [type |-> "String", list |-> FALSE],
                  site |-> [type |-> "String", list |-> FALSE] ],
    Item    |-> [ id    |-> [type |-> "ID", list |-> FALSE],
                  sku   |-> [type |-> "String", list |-> FALSE],
                  price |-> [type |-> "Int", list |-> FALSE] ],
    Node    |-> [ id |-> [type |-> "ID", list |-> FALSE] ],
    Ghost   |-> [ id  |-> [type |-> "ID", list |-> FALSE],
                  tag |-> [type |-> "String", list |-> FALSE] ],
    Subscription |-> [ tick |-> [type |-> "Int", list |-> FALSE] ] ]

\* Ghost is an interface that no object type implements
AbstractTypes == {"Node", "Ghost"}
PossibleTypes == [ Node |-> <<"User", "Item">>, Ghost |-> <<>> ]

\* ---- document nodes ----
FieldNode(name, alias, hasSel, sels) ==
  [ kind |-> "Field", name |-> name, alias |-> alias, typeCondition |-> "",
    hasSelectionSet |-> hasSel, selections |-> sels ]

Leaf(name) == FieldNode(name, "", FALSE, <<>>)
Comp(name, sels) == FieldNode(name, "", TRUE, sels)
InlineFragment(cond, sels) ==
  [ kind |-> "InlineFragment", name |-> "", alias |-> "", typeCondition |-> cond,
    hasSelectionSet |-> TRUE, selections |-> sels ]

ResponseKey(field) == IF field.alias # "" THEN field.alias ELSE field.name


(***************************************************************************)
(* Part 2: SuperSchema lookups and the Planner                             *)
(***************************************************************************)
VARIABLE schema       \* the input schemas the SuperSchema was built from

\* the operation definition the Executor was made for, without its selection
\* set, and the fragment definitions of its document
VARIABLE original

\* the set built by _addToSubschemaSets; a JS Set iterates in insertion order,
\* which is the order of the subschemas.  <<>> stands for "no entry".
subschemaSetsByTypeAndField(typeName, fieldName) ==
  SelectSeq(Subschemas,
            LAMBDA s : IF fieldName = TypeNameMetaFieldDef
                       THEN schema[s][typeName] # {}
                       ELSE fieldName \in schema[s][typeName])

Has(subschemaSet, subschema) ==
  \E i \in 1..Len(subschemaSet) : subschemaSet[i] = subschema

NoFieldDef == [type |-> Undefined, list |-> FALSE]

getFieldDef(parentType, fieldName) ==
  IF fieldName = TypeNameMetaFieldDef THEN [type |-> "String", list |-> FALSE]
  ELSE IF fieldName \in DOMAIN MergedFields[parentType]
       THEN MergedFields[parentType][fieldName]
       ELSE NoFieldDef

isAbstractType(typeName) == typeName \in AbstractTypes

getPossibleTypes(typeName) == PossibleTypes[typeName]

isSubType(abstractType, maybeSubType) ==
  \E i \in 1..Len(PossibleTypes[abstractType]) :
     PossibleTypes[abstractType][i] = maybeSubType

_doesFragmentConditionMatch(fragment, type) ==
  IF fragment.typeCondition = "" THEN TRUE
  ELSE IF fragment.typeCondition = type THEN TRUE
  ELSE IF isAbstractType(fragment.typeCondition)
       THEN isSubType(fragment.typeCondition, type)
       ELSE FALSE

RECURSIVE _collectSubFieldsImpl(_, _, _)
_collectSubFieldsImpl(runtimeType, selections, fieldNodes) ==
  IF Len(selections) = 0 THEN fieldNodes
  ELSE LET selection == Head(selections)
           newFieldNodes ==
             IF selection.kind = "Field" THEN Append(fieldNodes, selection)
             ELSE IF ~_doesFragmentConditionMatch(selection, runtimeType)
                  THEN fieldNodes
                  ELSE _collectSubFieldsImpl(runtimeType, selection.selections,
                                             fieldNodes)
       IN  _collectSubFieldsImpl(runtimeType, Tail(selections), newFieldNodes)

_collectSubFields(runtimeType, selections) ==
  _collectSubFieldsImpl(runtimeType, selections, <<>>)

\* ---- plans ----
\* MutableFieldPlan: subschemaPlans is the Map<Subschema, SubschemaPlan> in
\* insertion order; stitchPlans is the ObjMap in insertion order.
EmptyFieldPlan == [subschemaPlans |-> <<>>, stitchPlans |-> <<>>]

NewSubschemaPlan(subschema, fromSubschema) ==
  [ toSubschema |-> subschema, fromSubschema |-> fromSubschema,
    fieldNodes |-> <<>>, stitchPlans |-> <<>> ]

\* index of the plan of a subschema in the map, 0 when it has none
PlanIndex(subschemaPlans, subschema) ==
  IF \E i \in 1..Len(subschemaPlans) : subschemaPlans[i].toSubschema = subschema
  THEN CHOOSE i \in 1..Len(subschemaPlans) :
         subschemaPlans[i].toSubschema = subschema
  ELSE 0

\* the first candidate, in set order, that has a plan; 0 when none has
FirstWithPlan(subschemaSet, subschemaPlans) ==
  IF \E i \in 1..Len(subschemaSet) : PlanIndex(subschemaPlans, subschemaSet[i]) # 0
  THEN CHOOSE i \in 1..Len(subschemaSet) :
         /\ PlanIndex(subschemaPlans, subschemaSet[i]) # 0
         /\ \A j \in 1..(i - 1) : PlanIndex(subschemaPlans, subschemaSet[j]) = 0
  ELSE 0

\* obj[key] = value on an insertion-ordered object map of [key, value] entries
SetEntry(objMap, key, value) ==
  IF \E i \in 1..Len(objMap) : objMap[i].key = key
  THEN [i \in 1..Len(objMap) |->
          IF objMap[i].key = key THEN [key |-> key, value |-> value] ELSE objMap[i]]
  ELSE Append(objMap, [key |-> key, value |-> value])

_getSubschema(subschemaSet, subschemaPlans) ==
  LET i == FirstWithPlan(subschemaSet, subschemaPlans)
  IN  IF i # 0 THEN subschemaSet[i] ELSE subschemaSet[1]

\* returns the chosen subschema and the map, with a new empty plan when the
\* chosen subschema had none
_getSubschemaAndPlan(subschemaSet, subschemaPlans, fromSubschema) ==
  LET i == FirstWithPlan(subschemaSet, subschemaPlans)
  IN  IF i # 0
      THEN [subschema |-> subschemaSet[i], subschemaPlans |-> subschemaPlans]
      ELSE [subschema |-> subschemaSet[1],
            subschemaPlans |->
              Append(subschemaPlans, NewSubschemaPlan(subschemaSet[1], fromSubschema))]

\* the map, with a new empty plan for the subschema when it had none
_getSubschemaPlan(subschema, subschemaPlans, fromSubschema) ==
  IF PlanIndex(subschemaPlans, subschema) # 0 THEN subschemaPlans
  ELSE Append(subschemaPlans, NewSubschemaPlan(subschema, fromSubschema))

AppendFieldNode(subschemaPlans, subschema, field) ==
  LET i == PlanIndex(subschemaPlans, subschema)
  IN  [subschemaPlans EXCEPT ![i].fieldNodes = Append(@, field)]

SetSubschemaStitchPlan(subschemaPlans, subschema, responseKey, stitchPlan) ==
  LET i == PlanIndex(subschemaPlans, subschema)
  IN  [subschemaPlans EXCEPT ![i].stitchPlans = SetEntry(@, responseKey, stitchPlan)]

WithSelections(node, sels) ==
  [node EXCEPT !.hasSelectionSet = TRUE, !.selections = sels]

StitchingTypenameField ==
  FieldNode(TypeNameMetaFieldDef, StitchingTypename, FALSE, <<>>)

EmptySelectionSplit == [ownSelections |-> <<>>, otherSelections |-> <<>>]

\* ---- selection split (Planner.ts 410-619) ----
RECURSIVE _createSelectionSplit(_, _, _, _)
RECURSIVE _processSelectionsForSelectionSplit(_, _, _, _, _)
RECURSIVE _addFieldToSelectionSplit(_, _, _, _, _)
RECURSIVE _addFragmentToSelectionSplit(_, _, _, _, _)

_addFieldToSelectionSplit(selectionSplit, subschema, fromSubschema, parentType, field) ==
  LET subschemaSet == subschemaSetsByTypeAndField(parentType, field.name)
  IN
  IF Len(subschemaSet) = 0 THEN selectionSplit
  ELSE IF ~field.hasSelectionSet
  THEN IF Has(subschemaSet, subschema)
       THEN [selectionSplit EXCEPT !.ownSelections = Append(@, field)]
       ELSE [selectionSplit EXCEPT !.otherSelections = Append(@, field)]
  ELSE LET fieldDef == getFieldDef(parentType, field.name)
       IN
       IF fieldDef = NoFieldDef THEN selectionSplit
       ELSE LET subSelectionSplit ==
                  _createSelectionSplit(fieldDef.type, field.selections,
                                        subschema, fromSubschema)
                withOwn ==
                  IF Len(subSelectionSplit.ownSelections) > 0
                  THEN [selectionSplit EXCEPT !.ownSelections =
                          Append(@, WithSelections(field, subSelectionSplit.ownSelections))]
                  ELSE selectionSplit
            IN  IF Len(subSelectionSplit.otherSelections) > 0
                THEN [withOwn EXCEPT !.otherSelections =
                        Append(@, WithSelections(field, subSelectionSplit.otherSelections))]
                ELSE withOwn

_addFragmentToSelectionSplit(selectionSplit, subschema, fromSubschema, parentType, fragment) ==
  LET fragmentSelectionSplit ==
        _processSelectionsForSelectionSplit(EmptySelectionSplit, subschema,
                                            fromSubschema, parentType,
                                            fragment.selections)
      withOwn ==
        IF Len(fragmentSelectionSplit.ownSelections) > 0
        THEN [selectionSplit EXCEPT !.ownSelections =
                Append(@, WithSelections(fragment, fragmentSelectionSplit.ownSelections))]
        ELSE selectionSplit
  IN  IF Len(fragmentSelectionSplit.otherSelections) > 0
      THEN [withOwn EXCEPT !.otherSelections =
              Append(@, WithSelections(fragment, fragmentSelectionSplit.otherSelections))]
      ELSE withOwn

_processSelectionsForSelectionSplit(selectionSplit, subschema, fromSubschema, parentType, selections) ==
  IF Len(selections) = 0 THEN selectionSplit
  ELSE LET selection == Head(selections)
           refinedType == IF selection.typeCondition # ""
                          THEN selection.typeCondition ELSE parentType
           next ==
             IF selection.kind = "Field"
             THEN _addFieldToSelectionSplit(selectionSplit, subschema,
                                            fromSubschema, parentType, selection)
             ELSE _addFragmentToSelectionSplit(selectionSplit, subschema,
                                               fromSubschema, refinedType, selection)
       IN  _processSelectionsForSelectionSplit(next, subschema, fromSubschema,
                                               parentType, Tail(selections))

_createSelectionSplit(parentType, selections, subschema, fromSubschema) ==
  LET selectionSplit ==
        _processSelectionsForSelectionSplit(EmptySelectionSplit, subschema,
                                            fromSubschema, parentType, selections)
  IN  IF fromSubschema = Undefined /\ Len(selectionSplit.otherSelections) > 0
      THEN [selectionSplit EXCEPT !.ownSelections = Append(@, StitchingTypenameField)]
      ELSE selectionSplit

\* ---- field plans (Planner.ts 175-408) ----
RECURSIVE _addFieldToFieldPlan(_, _, _, _)
RECURSIVE AddFieldsToFieldPlan(_, _, _, _)
RECURSIVE _createSupplementalFieldPlan(_, _, _)
RECURSIVE CreateStitchPlanOver(_, _, _)

\* the loop of _createFieldPlanImpl and _createSupplementalFieldPlanImpl
AddFieldsToFieldPlan(fieldPlan, fromSubschema, parentType, fieldNodes) ==
  IF Len(fieldNodes) = 0 THEN fieldPlan
  ELSE AddFieldsToFieldPlan(
         _addFieldToFieldPlan(fieldPlan, fromSubschema, parentType, Head(fieldNodes)),
         fromSubschema, parentType, Tail(fieldNodes))

_createSupplementalFieldPlan(parentType, fieldNodes, fromSubschema) ==
  AddFieldsToFieldPlan(EmptyFieldPlan, fromSubschema, parentType, fieldNodes)

\* the loop of _createStitchPlan over the possible types
CreateStitchPlanOver(possibleTypes, otherSelections, subschema) ==
  IF Len(possibleTypes) = 0 THEN <<>>
  ELSE LET type == Head(possibleTypes)
           fieldNodes == _collectSubFields(type, otherSelections)
           fieldPlan == _createSupplementalFieldPlan(type, fieldNodes, subschema)
           rest == CreateStitchPlanOver(Tail(possibleTypes), otherSelections, subschema)
       IN  IF Len(fieldPlan.subschemaPlans) > 0 \/ Len(fieldPlan.stitchPlans) > 0
           THEN <<[type |-> type, fieldPlan |-> fieldPlan]>> \o rest
           ELSE rest

_createStitchPlan_AsObjectType(parentType, otherSelections, subschema) ==
  CreateStitchPlanOver(<<parentType>>, otherSelections, subschema)

_createStitchPlan(parentType, otherSelections, subschema) ==
  CreateStitchPlanOver(IF isAbstractType(parentType)
                       THEN getPossibleTypes(parentType) ELSE <<parentType>>,
                       otherSelections, subschema)

_addFieldToFieldPlan(fieldPlan, fromSubschema, parentType, field) ==
  LET subschemaSet == subschemaSetsByTypeAndField(parentType, field.name)
      subschemaPlans == fieldPlan.subschemaPlans
  IN
  IF Len(subschemaSet) = 0 THEN fieldPlan
  ELSE IF ~field.hasSelectionSet
  THEN LET got == _getSubschemaAndPlan(subschemaSet, subschemaPlans, fromSubschema)
       IN  [fieldPlan EXCEPT !.subschemaPlans =
              AppendFieldNode(got.subschemaPlans, got.subschema, field)]
  ELSE
  LET fieldDef == getFieldDef(parentType, field.name) IN
  IF fieldDef = NoFieldDef THEN fieldPlan
  ELSE
  LET namedFieldType == fieldDef.type
      subschema == _getSubschema(subschemaSet, subschemaPlans)
      selectionSplit == _createSelectionSplit(namedFieldType, field.selections,
                                              subschema, fromSubschema)
      stitchPlan == _createStitchPlan(namedFieldType,
                                      selectionSplit.otherSelections, subschema)
      responseKey == ResponseKey(field)
  IN
  IF Len(selectionSplit.ownSelections) > 0
  THEN LET withPlan == _getSubschemaPlan(subschema, subschemaPlans, fromSubschema)
           splitField == WithSelections(field, selectionSplit.ownSelections)
           appended == AppendFieldNode(withPlan, subschema, splitField)
       IN  IF Len(stitchPlan) > 0
           THEN IF subschema = fromSubschema
                THEN [subschemaPlans |-> appended,
                      stitchPlans |-> SetEntry(fieldPlan.stitchPlans, responseKey, stitchPlan)]
                ELSE [fieldPlan EXCEPT !.subschemaPlans =
                        SetSubschemaStitchPlan(appended, subschema, responseKey, stitchPlan)]
           ELSE [fieldPlan EXCEPT !.subschemaPlans = appended]
  ELSE IF Len(stitchPlan) > 0
  THEN IF subschema = fromSubschema
       THEN [fieldPlan EXCEPT !.stitchPlans = SetEntry(@, responseKey, stitchPlan)]
       ELSE LET got == _getSubschemaAndPlan(subschemaSet, subschemaPlans, fromSubschema)
            IN  [fieldPlan EXCEPT !.subschemaPlans =
                   SetSubschemaStitchPlan(got.subschemaPlans, got.subschema,
                                          responseKey, stitchPlan)]
  ELSE fieldPlan

_createFieldPlan(parentType, fieldNodes) ==
  AddFieldsToFieldPlan(EmptyFieldPlan, Undefined, parentType, fieldNodes)

\* createRootFieldPlan for a query operation whose skip/include directives
\* have been applied
createRootFieldPlan(selections) ==
  _createFieldPlan("Query", _collectSubFields("Query", selections))

(***************************************************************************)
(* Part 3: response data and the subschema executors                       *)
(*                                                                         *)
(* JS objects have identity: the heap maps object ids to objects, an       *)
(* object maps keys to values, a value is a scalar, null or a reference.   *)
(* An array is an object of kind "list" whose keys are "0", "1", ...       *)
(***************************************************************************)
Scalar(s) == [t |-> "scalar", s |-> s, r |-> 0]
Null      == [t |-> "null", s |-> "", r |-> 0]
Ref(id)   == [t |-> "ref", s |-> "", r |-> id]

NoKeys == [k \in {} |-> Null]
NewObject(kind) == [kind |-> kind, f |-> NoKeys]

IndexKey == <<"0", "1", "2", "3">>

IsDefined(heap, id, key) == key \in DOMAIN heap[id].f
IsNull(heap, id, key) == IsDefined(heap, id, key) /\ heap[id].f[key].t = "null"

\* obj[key] = value
SetKey(heap, id, key, value) ==
  [heap EXCEPT ![id].f = (key :> value) @@ @]

\* the concrete type of the i-th object a subschema returns for a field
RuntimeType(typeName, i) ==
  IF isAbstractType(typeName)
  THEN getPossibleTypes(typeName)[((i - 1) % Len(getPossibleTypes(typeName))) + 1]
  ELSE typeName

\* A subschema answers a document with data shaped by its selections: a leaf
\* is a scalar named after the field, __typename is the concrete type, a
\* composite field is an object, or a list of ListLen objects; a field of an
\* abstract type without possible types can only be null. Field nodes with
\* one response key are answered by one object.
RECURSIVE ResolveSelections(_, _, _, _)
RECURSIVE ResolveElements(_, _, _, _, _)

ResolveField(heap, objId, type, field) ==
  LET key == ResponseKey(field)
      fieldDef == getFieldDef(type, field.name)
  IN
  IF fieldDef = NoFieldDef THEN heap
  ELSE IF ~field.hasSelectionSet
  THEN SetKey(heap, objId, key,
              IF field.name = TypeNameMetaFieldDef THEN Scalar(type)
              ELSE Scalar(field.name))
  ELSE IF isAbstractType(fieldDef.type) /\ Len(getPossibleTypes(fieldDef.type)) = 0
  THEN SetKey(heap, objId, key, Null)
  ELSE IF fieldDef.list
  THEN LET listId == Len(heap) + 1
           withList == SetKey(Append(heap, NewObject("list")), objId, key, Ref(listId))
       IN  ResolveElements(withList, listId, fieldDef.type, field.selections, 1)
  ELSE IF IsDefined(heap, objId, key) /\ heap[objId].f[key].t = "ref"
  THEN ResolveSelections(heap, heap[objId].f[key].r,
                         RuntimeType(fieldDef.type, 1), field.selections)
  ELSE LET childId == Len(heap) + 1
           withChild == SetKey(Append(heap, NewObject("obj")), objId, key, Ref(childId))
       IN  ResolveSelections(withChild, childId, RuntimeType(fieldDef.type, 1),
                             field.selections)

ResolveElements(heap, listId, typeName, selections, i) ==
  IF i > ListLen THEN heap
  ELSE LET childId == Len(heap) + 1
           withChild == SetKey(Append(heap, NewObject("obj")), listId,
                               IndexKey[i], Ref(childId))
           resolved == ResolveSelections(withChild, childId,
                                         RuntimeType(typeName, i), selections)
       IN  ResolveElements(resolved, listId, typeName, selections, i + 1)

ResolveSelections(heap, objId, type, selections) ==
  IF Len(selections) = 0 THEN heap
  ELSE LET selection == Head(selections)
           next ==
             IF selection.kind = "Field"
             THEN ResolveField(heap, objId, type, selection)
             ELSE IF _doesFragmentConditionMatch(selection, type)
                  THEN ResolveSelections(heap, objId, type, selection.selections)
                  ELSE heap
       IN  ResolveSelections(next, objId, type, Tail(selections))

\* the outcomes of a call to subschema.executor
Outcomes == {"ok", "okErr", "null", "reject", "badType"}

FetchKey(subschema, path) == <<subschema, path>>

\* errors are told apart by the fetch whose result carried them
SubschemaError(key) == [subschema |-> key[1], path |-> key[2], originalError |-> FALSE]
\* new GraphQLError(err.message, { originalError: err })
RejectionError(key) == [subschema |-> key[1], path |-> key[2], originalError |-> TRUE]

\* the nested value a heap value stands for
RECURSIVE Deref(_, _)
Deref(heap, value) ==
  IF value.t # "ref" THEN [t |-> value.t, s |-> value.s, f |-> NoKeys]
  ELSE [t |-> heap[value.r].kind, s |-> "",
        f |-> [k \in DOMAIN heap[value.r].f |-> Deref(heap, heap[value.r].f[k])]]

(***************************************************************************)
(* Part 4: the Composer                                                    *)
(*                                                                         *)
(* A composer state c is a record:                                         *)
(*   heap          the objects; heap[1] is this.fields                     *)
(*   errors        this.errors                                             *)
(*   nulled        this.nulled                                             *)
(*   promiseCount  the promises the PromiseAggregator is waiting for       *)
(*   pending       the executor promises that have not settled, each with  *)
(*                 the arguments its handlers were bound to                *)
(*   calls         the calls made to subschema executors, in order         *)
(*   thrown        an exception is propagating out of the running handler  *)
(*   log           history: the calls of _handleResult, in order           *)
(*   results       what each executor call answers (fixed per fetch)       *)
(*   asyncSubschemas  the subschemas whose executor returns a promise      *)
(***************************************************************************)
FieldsId == 1
NoParent == 0

OutcomeOf(c, key) == IF key \in DOMAIN c.results THEN c.results[key] ELSE "ok"

\* a document: its one operation definition, then the fragment definitions
Document(kind, name, variableDefinitions, selections, fragments) ==
  [ operation |-> kind, name |-> name, variableDefinitions |-> variableDefinitions,
    selections |-> selections, fragments |-> fragments ]

\* Executor._createDocument: { ...this.operation, selectionSet }, ...this.fragments
CreateDocument(selections) ==
  Document(original.operation, original.name, original.variableDefinitions,
           selections, original.fragments)

\* Composer._createDocument: a query without name and variable definitions
_createDocument(selections) ==
  Document("query", "", <<>>, selections, <<>>)

\* subschema.executor({ document, variables }): records the call and returns
\* the initialResult (a promise, or a result when the subschema is synchronous);
\* the document of a top-level call is made by the Executor, that of a
\* follow-up by the Composer
Executor(c, subschema, type, fieldNodes, path, top) ==
  [ c |-> [c EXCEPT !.calls = Append(@, [subschema |-> subschema, path |-> path,
                                         type |-> type, fieldNodes |-> fieldNodes,
                                         top |-> top,
                                         document |->
                                           IF top THEN CreateDocument(fieldNodes)
                                           ELSE _createDocument(fieldNodes)])],
    initialResult |-> [ isPromise |-> subschema \in c.asyncSubschemas,
                        subschema |-> subschema, path |-> path,
                        type |-> type, fieldNodes |-> fieldNodes ] ]

\* a subschema that answers every __stitching__typename with the name of a
\* type that is no object type: the objects from id first on are its answer
RECURSIVE Mistyped(_, _)
Mistyped(heap, first) ==
  IF first > Len(heap) THEN heap
  ELSE Mistyped(IF StitchingTypename \in DOMAIN heap[first].f
                THEN [heap EXCEPT ![first].f[StitchingTypename] = Scalar("Node")]
                ELSE heap,
                first + 1)

\* a subschema that answers null for every object directly under data
NullObjects(heap, dataId) ==
  LET f == heap[dataId].f
  IN  [heap EXCEPT ![dataId].f =
         [k \in DOMAIN f |->
            IF f[k].t = "ref" /\ heap[f[k].r].kind = "obj" THEN Null ELSE f[k]]]

\* a subschema that answers null for the last element of every list directly
\* under data: the lists are among the objects from id first on
RECURSIVE NullElements(_, _, _)
NullElements(heap, dataId, first) ==
  IF first > Len(heap) THEN heap
  ELSE NullElements(IF /\ heap[first].kind = "list"
                       /\ \E k \in DOMAIN heap[dataId].f :
                            /\ heap[dataId].f[k].t = "ref"
                            /\ heap[dataId].f[k].r = first
                       /\ IndexKey[ListLen] \in DOMAIN heap[first].f
                    THEN [heap EXCEPT ![first].f[IndexKey[ListLen]] = Null]
                    ELSE heap,
                    dataId, first + 1)

\* what the subschema answers with, given the data its resolvers produce
Answered(outcome, answer, dataId) ==
  IF outcome = "badType" THEN Mistyped(answer, dataId)
  ELSE IF outcome = "nullObject" THEN NullObjects(answer, dataId)
  ELSE IF outcome = "nullElement" THEN NullElements(answer, dataId, dataId)
  ELSE answer

\* the ExecutionResult an initialResult stands for; result.data is the id of
\* the data object, 0 for null
Materialize(c, initialResult) ==
  LET key == FetchKey(initialResult.subschema, initialResult.path)
      outcome == OutcomeOf(c, key)
      dataId == Len(c.heap) + 1
  IN  IF outcome = "null"
      THEN [c |-> c, result |-> [data |-> 0, errors |-> <<SubschemaError(key)>>]]
      ELSE [c |-> [c EXCEPT !.heap =
                     Answered(outcome,
                              ResolveSelections(
                                Append(c.heap, NewObject("obj")), dataId,
                                initialResult.type, initialResult.fieldNodes),
                              dataId)],
            result |-> [data |-> dataId,
                        errors |-> IF outcome = "okErr"
                                   THEN <<SubschemaError(key)>> ELSE <<>>]]

\* variant: the exception is passed on as it is, without a wrapping error
RejectionResult_Unwrapped(initialResult) ==
  [data |-> 0,
   errors |-> <<SubschemaError(FetchKey(initialResult.subschema, initialResult.path))>>]

\* the result the rejection handler of _handleMaybeAsyncResult builds
RejectionResult(initialResult) ==
  [data |-> 0,
   errors |-> <<RejectionError(FetchKey(initialResult.subschema, initialResult.path))>>]

\* ---- the stitch walk (Composer 174-243) ----
RECURSIVE _walkStitchTrees(_, _, _, _, _)
RECURSIVE _collectSubFetches(_, _, _, _, _, _)
RECURSIVE CollectElements(_, _, _, _, _, _)

StitchTreeIndex(stitchTree, typeName) ==
  IF \E i \in 1..Len(stitchTree) : stitchTree[i].type = typeName
  THEN CHOOSE i \in 1..Len(stitchTree) : stitchTree[i].type = typeName
  ELSE 0

\* variant: an object without a usable marker is passed over
_collectSubFetches_SkipsUnmarked(acc, heap, parent, fieldsOrList, stitchTree, path) ==
  IF acc.thrown THEN acc
  ELSE IF fieldsOrList.t = "ref" /\ heap[fieldsOrList.r].kind = "list"
  THEN CollectElements(acc, heap, fieldsOrList.r, stitchTree, path, 0)
  ELSE IF fieldsOrList.t # "ref"
  THEN [acc EXCEPT !.thrown = TRUE]
  ELSE
  LET obj == fieldsOrList.r IN
  IF ~IsDefined(heap, obj, StitchingTypename) \/ IsNull(heap, obj, StitchingTypename)
  THEN acc
  ELSE
  LET typeName == heap[obj].f[StitchingTypename].s
      idx == StitchTreeIndex(stitchTree, typeName)
  IN
  IF typeName \notin (TypeNames \ AbstractTypes) \/ idx = 0
  THEN acc
  ELSE
  LET fieldPlan == stitchTree[idx].fieldPlan
      added == [i \in 1..Len(fieldPlan.subschemaPlans) |->
                  [ subschema |-> fieldPlan.subschemaPlans[i].toSubschema,
                    fieldNodes |-> fieldPlan.subschemaPlans[i].fieldNodes,
                    stitchTrees |-> fieldPlan.subschemaPlans[i].stitchPlans,
                    parent |-> parent, target |-> obj, path |-> path,
                    type |-> typeName ]]
  IN  _walkStitchTrees([acc EXCEPT !.subFetches = @ \o added], heap, obj,
                       fieldPlan.stitchPlans, path)

\* acc = [thrown, subFetches]: the walk so far
_collectSubFetches(acc, heap, parent, fieldsOrList, stitchTree, path) ==
  IF acc.thrown THEN acc
  ELSE IF fieldsOrList.t = "ref" /\ heap[fieldsOrList.r].kind = "list"
  THEN CollectElements(acc, heap, fieldsOrList.r, stitchTree, path, 0)
  ELSE IF fieldsOrList.t # "ref"
  THEN [acc EXCEPT !.thrown = TRUE]
  ELSE
  LET obj == fieldsOrList.r IN
  IF ~IsDefined(heap, obj, StitchingTypename) \/ IsNull(heap, obj, StitchingTypename)
  THEN [acc EXCEPT !.thrown = TRUE]
  ELSE
  LET typeName == heap[obj].f[StitchingTypename].s
      idx == StitchTreeIndex(stitchTree, typeName)
  IN
  IF typeName \notin (TypeNames \ AbstractTypes) \/ idx = 0
  THEN [acc EXCEPT !.thrown = TRUE]
  ELSE
  LET fieldPlan == stitchTree[idx].fieldPlan
      added == [i \in 1..Len(fieldPlan.subschemaPlans) |->
                  [ subschema |-> fieldPlan.subschemaPlans[i].toSubschema,
                    fieldNodes |-> fieldPlan.subschemaPlans[i].fieldNodes,
                    stitchTrees |-> fieldPlan.subschemaPlans[i].stitchPlans,
                    parent |-> parent, target |-> obj, path |-> path,
                    type |-> typeName ]]
  IN  _walkStitchTrees([acc EXCEPT !.subFetches = @ \o added], heap, obj,
                       fieldPlan.stitchPlans, path)

\* variant: every round of the loop over the list takes the first element
CollectElements_FirstElement(acc, heap, list, stitchTree, path, i) ==
  IF i >= Cardinality(DOMAIN heap[list].f) THEN acc
  ELSE CollectElements(
         _collectSubFetches(acc, heap, list, heap[list].f[IndexKey[1]],
                            stitchTree, Append(path, IndexKey[i + 1])),
         heap, list, stitchTree, path, i + 1)

CollectElements(acc, heap, list, stitchTree, path, i) ==
  IF i >= Cardinality(DOMAIN heap[list].f) THEN acc
  ELSE CollectElements(
         _collectSubFetches(acc, heap, list, heap[list].f[IndexKey[i + 1]],
                            stitchTree, Append(path, IndexKey[i + 1])),
         heap, list, stitchTree, path, i + 1)

_walkStitchTrees(acc, heap, fields, stitchTrees, path) ==
  IF Len(stitchTrees) = 0 \/ acc.thrown THEN acc
  ELSE LET entry == Head(stitchTrees)
           next ==
             IF IsDefined(heap, fields, entry.key)
             THEN _collectSubFetches(acc, heap, fields, heap[fields].f[entry.key],
                                     entry.value, Append(path, entry.key))
             ELSE acc
       IN  _walkStitchTrees(next, heap, fields, Tail(stitchTrees), path)

\* the iteration order of the AccumulatorMap<Subschema, FetchPlan>: subschemas
\* in the order of their first fetch, the fetches of one subschema together
RECURSIVE SubFetchMapOrder(_)
SubFetchMapOrder(subFetches) ==
  IF Len(subFetches) = 0 THEN <<>>
  ELSE LET s == Head(subFetches).subschema
       IN  SelectSeq(subFetches, LAMBDA x : x.subschema = s)
           \o SubFetchMapOrder(SelectSeq(subFetches, LAMBDA x : x.subschema # s))

\* for (const [key, value] of Object.entries(result.data)) fields[key] = value
MergeData(heap, fields, data) ==
  [heap EXCEPT ![fields].f = [k \in DOMAIN heap[data].f |-> heap[data].f[k]] @@ @]

\* ---- the PromiseAggregator: a counter of outstanding promises ----
\* add(promise): every dispatch increments
add(c) == [c EXCEPT !.promiseCount = @ + 1]
\* an added promise settled: each resolution decrements
settled(c) == [c EXCEPT !.promiseCount = @ - 1]
\* isEmpty(): nothing outstanding; resolved() completes when this holds
isEmpty(c) == c.promiseCount = 0

\* ---- result handling (Composer 92-173) ----
\* history: one entry per call of _handleResult, with what it was called on
LogEntry(c, parent, parentKey, fields, stitch, result, path) ==
  [ subschema |-> stitch.initialResult.subschema, path |-> path,
    parent |-> parent, parentKey |-> parentKey, target |-> fields,
    data |-> result.data, stitchTrees |-> stitch.stitchTrees,
    errors |-> result.errors, failed |-> result.data = 0,
    discarded |-> IF parent # NoParent THEN IsNull(c.heap, parent, parentKey)
                  ELSE c.nulled ]

RECURSIVE _handleResult(_, _, _, _, _, _)
RECURSIVE _handleMaybeAsyncResult(_, _, _, _, _)
RECURSIVE DispatchSubFetches(_, _)

\* variant: only the promises of the top-level fetches are handed to the
\* PromiseAggregator
_handleMaybeAsyncResult_TopLevelOnly(c, parent, fields, stitch, path) ==
  IF ~stitch.initialResult.isPromise
  THEN LET m == Materialize(c, stitch.initialResult)
       IN  _handleResult(m.c, parent, fields, stitch, m.result, path)
  ELSE LET waiting == [c EXCEPT !.pending =
                         Append(@, [parent |-> parent, fields |-> fields,
                                    stitch |-> stitch, path |-> path,
                                    added |-> parent = NoParent])]
       IN  IF parent = NoParent THEN add(waiting) ELSE waiting

\* variant: a plain result is handed to the PromiseAggregator like a promise
_handleMaybeAsyncResult_AlwaysAdds(c, parent, fields, stitch, path) ==
  add([c EXCEPT !.pending = Append(@, [parent |-> parent, fields |-> fields,
                                        stitch |-> stitch, path |-> path,
                                        added |-> TRUE])])

_handleMaybeAsyncResult(c, parent, fields, stitch, path) ==
  IF ~stitch.initialResult.isPromise
  THEN LET m == Materialize(c, stitch.initialResult)
       IN  _handleResult(m.c, parent, fields, stitch, m.result, path)
  ELSE add([c EXCEPT !.pending = Append(@, [parent |-> parent, fields |-> fields,
                                            stitch |-> stitch, path |-> path,
                                            added |-> TRUE])])

\* variant: only the first fetch of the subFetchMap is dispatched
DispatchSubFetches_FirstOnly(c, subFetches) ==
  IF Len(subFetches) = 0 \/ c.thrown THEN c
  ELSE LET subFetch == Head(subFetches)
           called == Executor(c, subFetch.subschema, subFetch.type,
                              subFetch.fieldNodes, subFetch.path, FALSE)
           subStitch == [ fromSubschema |-> subFetch.subschema,
                          stitchTrees |-> subFetch.stitchTrees,
                          initialResult |-> called.initialResult ]
       IN  _handleMaybeAsyncResult(called.c, subFetch.parent, subFetch.target,
                                   subStitch, subFetch.path)

\* the loop over the subFetchMap at the end of _handleResult
DispatchSubFetches(c, subFetches) ==
  IF Len(subFetches) = 0 \/ c.thrown THEN c
  ELSE LET subFetch == Head(subFetches)
           called == Executor(c, subFetch.subschema, subFetch.type,
                              subFetch.fieldNodes, subFetch.path, FALSE)
           subStitch == [ fromSubschema |-> subFetch.subschema,
                          stitchTrees |-> subFetch.stitchTrees,
                          initialResult |-> called.initialResult ]
       IN  DispatchSubFetches(
             _handleMaybeAsyncResult(called.c, subFetch.parent, subFetch.target,
                                     subStitch, subFetch.path),
             Tail(subFetches))

\* if (result.errors != null) this.errors.push(...result.errors)
PushErrors(c, result) == [c EXCEPT !.errors = @ \o result.errors]

\* the null-propagation gate: the slot, or the whole response, is null already
Gated(c, parent, parentKey) ==
  IF parent # NoParent THEN IsNull(c.heap, parent, parentKey) ELSE c.nulled

\* variant: a null result at the root is dropped like one without a parent
NullData_SlotOnly(c, parent, parentKey) ==
  IF parent # NoParent /\ parentKey # Undefined
  THEN [c EXCEPT !.heap = SetKey(@, parent, parentKey, Null)]
  ELSE c

\* variant: null bubbling, a null slot nulls the whole response as well
NullData_Bubbles(c, parent, parentKey) ==
  IF parentKey = Undefined THEN [c EXCEPT !.nulled = TRUE]
  ELSE IF parent # NoParent
       THEN [c EXCEPT !.heap = SetKey(@, parent, parentKey, Null), !.nulled = TRUE]
       ELSE c

\* result.data == null: null the whole response or the slot of the parent
NullData(c, parent, parentKey) ==
  IF parentKey = Undefined THEN [c EXCEPT !.nulled = TRUE]
  ELSE IF parent # NoParent
       THEN [c EXCEPT !.heap = SetKey(@, parent, parentKey, Null)]
       ELSE c

\* what _handleResult does with a result that passed the gate
HandleData(c, parent, parentKey, fields, stitch, result, path) ==
  IF result.data = 0 THEN NullData(c, parent, parentKey)
  ELSE
  LET merged == [c EXCEPT !.heap = MergeData(@, fields, result.data)]
      walk == _walkStitchTrees([thrown |-> FALSE, subFetches |-> <<>>],
                               merged.heap, result.data, stitch.stitchTrees, path)
  IN  IF walk.thrown THEN [merged EXCEPT !.thrown = TRUE]
      ELSE DispatchSubFetches(merged, SubFetchMapOrder(walk.subFetches))

\* variant: the gate is tested before the errors are pushed
_handleResult_GateFirst(c, parent, fields, stitch, result, path) ==
  LET parentKey == IF Len(path) > 0 THEN path[Len(path)] ELSE Undefined
      logged == [c EXCEPT !.log = Append(@, LogEntry(c, parent, parentKey, fields,
                                                     stitch, result, path))]
  IN  IF Gated(logged, parent, parentKey) THEN logged
      ELSE HandleData(PushErrors(logged, result), parent, parentKey, fields,
                      stitch, result, path)

_handleResult(c, parent, fields, stitch, result, path) ==
  LET parentKey == IF Len(path) > 0 THEN path[Len(path)] ELSE Undefined
      logged == [c EXCEPT !.log = Append(@, LogEntry(c, parent, parentKey, fields,
                                                     stitch, result, path))]
      pushed == PushErrors(logged, result)
  IN  IF Gated(pushed, parent, parentKey) THEN pushed
      ELSE HandleData(pushed, parent, parentKey, fields, stitch, result, path)

_buildResponse(c) ==
  [ data |-> IF c.nulled THEN Null ELSE Ref(FieldsId),
    hasErrors |-> Len(c.errors) > 0,
    errors |-> c.errors ]

\* the loop of compose() over the top-level subschema plans; the executor of
\* each plan is invoked once (Executor.execute)
\* variant: only the first subschema plan is dispatched
ComposeLoop_FirstOnly(c, subschemaPlans) ==
  IF Len(subschemaPlans) = 0 \/ c.thrown THEN c
  ELSE LET subschemaPlan == Head(subschemaPlans)
           called == Executor(c, subschemaPlan.toSubschema, "Query",
                              subschemaPlan.fieldNodes, <<>>, TRUE)
           stitch == [ fromSubschema |-> subschemaPlan.toSubschema,
                       stitchTrees |-> subschemaPlan.stitchPlans,
                       initialResult |-> called.initialResult ]
       IN  _handleMaybeAsyncResult(called.c, NoParent, FieldsId, stitch, <<>>)

RECURSIVE ComposeLoop(_, _)
ComposeLoop(c, subschemaPlans) ==
  IF Len(subschemaPlans) = 0 \/ c.thrown THEN c
  ELSE LET subschemaPlan == Head(subschemaPlans)
           called == Executor(c, subschemaPlan.toSubschema, "Query",
                              subschemaPlan.fieldNodes, <<>>, TRUE)
           stitch == [ fromSubschema |-> subschemaPlan.toSubschema,
                       stitchTrees |-> subschemaPlan.stitchPlans,
                       initialResult |-> called.initialResult ]
       IN  ComposeLoop(_handleMaybeAsyncResult(called.c, NoParent, FieldsId, stitch, <<>>),
                       Tail(subschemaPlans))

RemoveAt(seq, i) == SubSeq(seq, 1, i - 1) \o SubSeq(seq, i + 1, Len(seq))

\* the i-th pending promise fulfils: its fulfilment handler runs, then the
\* PromiseAggregator counts it as resolved
OnFulfilled(c, i) ==
  LET p == c.pending[i]
      m == Materialize([c EXCEPT !.pending = RemoveAt(@, i)], p.stitch.initialResult)
      handledC == _handleResult(m.c, p.parent, p.fields, p.stitch, m.result, p.path)
  IN  IF p.added THEN settled(handledC) ELSE handledC

\* a rejection whose promise is never counted as resolved
OnRejected_NotCounted(c, i) ==
  LET p == c.pending[i]
  IN  _handleResult([c EXCEPT !.pending = RemoveAt(@, i)], p.parent,
                    p.fields, p.stitch,
                    RejectionResult(p.stitch.initialResult), p.path)

\* the i-th pending promise rejects: its rejection handler runs
OnRejected(c, i) ==
  LET p == c.pending[i]
      handledC == _handleResult([c EXCEPT !.pending = RemoveAt(@, i)], p.parent,
                                p.fields, p.stitch,
                                RejectionResult(p.stitch.initialResult), p.path)
  IN  IF p.added THEN settled(handledC) ELSE handledC

Settle(c, i) ==
  LET ir == c.pending[i].stitch.initialResult
  IN  IF OutcomeOf(c, FetchKey(ir.subschema, ir.path)) = "reject"
      THEN OnRejected(c, i) ELSE OnFulfilled(c, i)

\* new Composer(...): the state after construction
NewComposer(res, async) ==
  [ heap |-> <<NewObject("obj")>>, errors |-> <<>>, nulled |-> FALSE,
    promiseCount |-> 0, pending |-> <<>>, calls |-> <<>>, thrown |-> FALSE,
    log |-> <<>>, results |-> res, asyncSubschemas |-> async ]

\* a whole run in which the promises settle in the order they were created
RECURSIVE Drain(_)
Drain(c) == IF Len(c.pending) = 0 \/ c.thrown THEN c ELSE Drain(Settle(c, 1))

RunInDispatchOrder(plan, res, async) ==
  Drain(ComposeLoop(NewComposer(res, async), plan.subschemaPlans))

(***************************************************************************)
(* Part 5: state, actions, specifications                                  *)
(***************************************************************************)
VARIABLES
  operation,        \* the root selections of the operation
  planFieldNodes,   \* Planner: the root field nodes not yet added to the plan
  fieldPlan,        \* the (Mutable)FieldPlan
  heap, errors, nulled, promiseCount, pending, calls, thrown, log,
  results, asyncSubschemas,   \* the Composer state, see Part 4
  response,         \* what compose() returned
  pc,               \* where the run is
  superSchema,      \* the SuperSchema under construction, see Part 9
  coercion          \* a call of getVariableValues, see Part 10

\* the entry point, see Part 7
VARIABLES
  args,             \* the ExecutionArgs and the behaviour of the subschemas
  exeContext,       \* what buildExecutionContext returned
  planMap,          \* plan.map: the selections sent to each subschema
  invocations,      \* the executors and subscribers invoked, in order
  promised,         \* the results awaited
  outcome,          \* what the entry point returned
  entryPc,          \* where the entry point is
  planResult        \* a PlanResult whose promises settle one by one, see Part 16

entryVars == << args, exeContext, planMap, invocations, promised, outcome, entryPc,
                planResult >>

runVars == << original, operation, planFieldNodes, fieldPlan, heap, errors, nulled,
              promiseCount, pending, calls, thrown, log, results,
              asyncSubschemas, response, pc, superSchema, coercion >>

\* the Consolidator and its consumer, see Part 8
VARIABLE consolidator

vars == << schema, runVars, entryVars, consolidator >>

\* the entry point is not in use
EntryIdle ==
  /\ args = <<>>
  /\ exeContext = <<>>
  /\ planMap = <<>>
  /\ invocations = <<>>
  /\ promised = <<>>
  /\ outcome = <<>>
  /\ entryPc = "idle"
  /\ planResult = <<>>

\* no Consolidator is in use
ConsolidatorIdle == consolidator = <<>>

composerVars == << heap, errors, nulled, promiseCount, pending, calls, thrown, log >>

Composer ==
  [ heap |-> heap, errors |-> errors, nulled |-> nulled,
    promiseCount |-> promiseCount, pending |-> pending, calls |-> calls,
    thrown |-> thrown, log |-> log, results |-> results,
    asyncSubschemas |-> asyncSubschemas ]

SetComposer(c) ==
  /\ heap' = c.heap
  /\ errors' = c.errors
  /\ nulled' = c.nulled
  /\ promiseCount' = c.promiseCount
  /\ pending' = c.pending
  /\ calls' = c.calls
  /\ thrown' = c.thrown
  /\ log' = c.log

NoResponse == [data |-> Null, hasErrors |-> FALSE, errors |-> <<>>]
NoResults == [k \in {} |-> "ok"]

\* ---- the operations ----
UserSelections ==
  { <<Leaf("name")>>,
    <<Leaf("name"), Leaf("email")>>,
    <<Leaf("name"), Leaf("email"), Leaf("phone")>>,
    <<Leaf("email")>>,
    <<Leaf("name"), Comp("profile", <<Leaf("bio"), Leaf("site")>>)>>,
    <<Comp("profile", <<Leaf("site")>>)>>,
    <<Comp("friend", <<Leaf("name")>>)>>,
    <<Leaf("id"), Comp("friend", <<Leaf("email")>>)>>,
    <<Leaf("name"), Comp("friend", <<Leaf("phone")>>)>>,
    <<Comp("friend", <<Leaf("email"), Leaf("phone")>>)>> }

RootSelections ==
  { Leaf("a"), Leaf("b"),
    Comp("items", <<Leaf("sku")>>),
    Comp("items", <<Leaf("sku"), Leaf("price")>>),
    Comp("items", <<Leaf("price")>>),
    Comp("node", <<Leaf("id"), InlineFragment("User", <<Leaf("name"), Leaf("email")>>)>>),
    Comp("node", <<InlineFragment("User", <<Leaf("email")>>),
                   InlineFragment("Item", <<Leaf("sku"), Leaf("price")>>)>>),
    Comp("ghost", <<Leaf("id"), Leaf("tag")>>),
    Comp("nodes", <<Leaf("id"),
                    InlineFragment("User", <<Leaf("name"), Leaf("email")>>),
                    InlineFragment("Item", <<Leaf("sku"), Leaf("price")>>)>>) }
  \cup { Comp("user", sels) : sels \in UserSelections }

\* the operations the Planner is run on
PlannerOperations ==
  UNION { [1..n -> RootSelections] : n \in 1..MaxRootFields }

\* the operations the Composer is run on
ComposerOperations ==
  { <<r>> : r \in RootSelections }
  \cup { <<Leaf("a"), Leaf("b")>>,
         <<Leaf("a"), Comp("user", <<Leaf("name"), Leaf("email")>>)>>,
         <<Comp("user", <<Leaf("name"), Comp("profile", <<Leaf("bio"), Leaf("site")>>)>>),
           Comp("items", <<Leaf("sku"), Leaf("price")>>)>>,
         <<Leaf("b"), Comp("user", <<Leaf("id")>>),
           Comp("items", <<Leaf("sku")>>), Comp("user", <<Leaf("name")>>)>> }

\* { ... } and query Q($n: Int) { ... } fragment F on User { ... }
AnonymousQuery ==
  [operation |-> "query", name |-> "", variableDefinitions |-> <<>>, fragments |-> <<>>]
NamedQuery ==
  [operation |-> "query", name |-> "Q", variableDefinitions |-> <<"n">>,
   fragments |-> <<"F">>]
OriginalChoices == {AnonymousQuery, NamedQuery}

AsyncChoices == { {}, {"B"}, {"A", "C"}, {"A", "B", "C"} }

\* the fetches a run can make: those of the run in which every result is data
FetchKeys(plan) ==
  LET run == RunInDispatchOrder(plan, NoResults, {})
  IN  { FetchKey(run.calls[i].subschema, run.calls[i].path) : i \in 1..Len(run.calls) }

ResultChoices(plan, async) ==
  { r \in [FetchKeys(plan) -> Outcomes] :
      /\ Cardinality({k \in DOMAIN r : r[k] # "ok"}) <= MaxFaults
      /\ \A k \in DOMAIN r : r[k] = "reject" => k[1] \in async }

\* ---- Composer run ----
Init ==
  /\ superSchema = <<>>
  /\ coercion = <<>>
  /\ schema \in SchemaChoices
  /\ original \in OriginalChoices
  /\ operation \in ComposerOperations
  /\ planFieldNodes = <<>>
  /\ fieldPlan = createRootFieldPlan(operation)
  /\ asyncSubschemas \in AsyncChoices
  /\ results \in ResultChoices(fieldPlan, asyncSubschemas)
  /\ heap = <<NewObject("obj")>>
  /\ errors = <<>>
  /\ nulled = FALSE
  /\ promiseCount = 0
  /\ pending = <<>>
  /\ calls = <<>>
  /\ thrown = FALSE
  /\ log = <<>>
  /\ response = NoResponse
  /\ pc = "start"
  /\ EntryIdle
  /\ ConsolidatorIdle

\* what is left of the run after a handler ran: an exception ends it
After(c, next) ==
  /\ SetComposer(c)
  /\ pc' = IF c.thrown THEN "thrown" ELSE next

\* compose(): dispatch the top-level fetches; return the response at once
\* when no promise is outstanding
Compose ==
  /\ pc = "start"
  /\ LET c == ComposeLoop(Composer, fieldPlan.subschemaPlans)
     IN  /\ After(c, IF isEmpty(c) THEN "done" ELSE "waiting")
         /\ response' = IF ~c.thrown /\ isEmpty(c)
                        THEN _buildResponse(c) ELSE response
  /\ UNCHANGED << coercion, superSchema, consolidator, entryVars, schema, original, operation, planFieldNodes, fieldPlan, results, asyncSubschemas >>

\* an executor promise fulfils, before or after compose() has answered
Fulfil(i) ==
  /\ pc \in {"waiting", "done"}
  /\ i \in 1..Len(pending)
  /\ OutcomeOf(Composer, FetchKey(pending[i].stitch.initialResult.subschema,
                                  pending[i].stitch.initialResult.path)) # "reject"
  /\ After(OnFulfilled(Composer, i), pc)
  /\ UNCHANGED << coercion, superSchema, consolidator, entryVars, schema, original, operation, planFieldNodes, fieldPlan, results,
                  asyncSubschemas, response >>

\* an executor promise rejects
Reject(i) ==
  /\ pc \in {"waiting", "done"}
  /\ i \in 1..Len(pending)
  /\ OutcomeOf(Composer, FetchKey(pending[i].stitch.initialResult.subschema,
                                  pending[i].stitch.initialResult.path)) = "reject"
  /\ After(OnRejected(Composer, i), pc)
  /\ UNCHANGED << coercion, superSchema, consolidator, entryVars, schema, original, operation, planFieldNodes, fieldPlan, results,
                  asyncSubschemas, response >>

\* promiseAggregator.resolved().then(() => this._buildResponse())
BuildResponse ==
  /\ pc = "waiting"
  /\ isEmpty(Composer)
  /\ response' = _buildResponse(Composer)
  /\ pc' = "done"
  /\ UNCHANGED << coercion, superSchema, consolidator, entryVars, schema, original, operation, planFieldNodes, fieldPlan, results,
                  asyncSubschemas, composerVars >>

Next ==
  \/ Compose
  \/ \E i \in 1..Len(pending) : Fulfil(i)
  \/ \E i \in 1..Len(pending) : Reject(i)
  \/ BuildResponse

Spec == Init /\ [][Next]_vars

\* ---- Planner run: _createFieldPlanImpl, one field node per step ----
InitPlanner ==
  /\ superSchema = <<>>
  /\ coercion = <<>>
  /\ schema \in SchemaChoices
  /\ original = AnonymousQuery
  /\ operation \in PlannerOperations
  /\ planFieldNodes = _collectSubFields("Query", operation)
  /\ fieldPlan = EmptyFieldPlan
  /\ asyncSubschemas = {}
  /\ results = NoResults
  /\ heap = <<NewObject("obj")>>
  /\ errors = <<>>
  /\ nulled = FALSE
  /\ promiseCount = 0
  /\ pending = <<>>
  /\ calls = <<>>
  /\ thrown = FALSE
  /\ log = <<>>
  /\ response = NoResponse
  /\ pc = "planning"
  /\ EntryIdle
  /\ ConsolidatorIdle

\* one iteration of the loop of _createFieldPlanImpl
AddFieldToFieldPlan ==
  /\ pc = "planning"
  /\ Len(planFieldNodes) > 0
  /\ fieldPlan' = _addFieldToFieldPlan(fieldPlan, Undefined, "Query",
                                       Head(planFieldNodes))
  /\ planFieldNodes' = Tail(planFieldNodes)
  /\ UNCHANGED << coercion, superSchema, consolidator, entryVars, schema, original, operation, results, asyncSubschemas, composerVars,
                  response, pc >>

\* the loop is over: the plan is returned
ReturnFieldPlan ==
  /\ pc = "planning"
  /\ Len(planFieldNodes) = 0
  /\ pc' = "planned"
  /\ UNCHANGED << coercion, superSchema, consolidator, entryVars, schema, original, operation, planFieldNodes, fieldPlan, results,
                  asyncSubschemas, composerVars, response >>

NextPlanner == AddFieldToFieldPlan \/ ReturnFieldPlan

SpecPlanner == InitPlanner /\ [][NextPlanner]_vars

(***************************************************************************)
(* Part 6: properties                                                      *)
(***************************************************************************)
\* ---- reading plans ----
RECURSIVE SelectionsResolvable(_, _, _)
SelectionsResolvable(type, selections, subschema) ==
  \A i \in 1..Len(selections) :
    LET selection == selections[i] IN
    IF selection.kind = "Field"
    THEN /\ Has(subschemaSetsByTypeAndField(type, selection.name), subschema)
         /\ selection.hasSelectionSet =>
              SelectionsResolvable(getFieldDef(type, selection.name).type,
                                   selection.selections, subschema)
    ELSE SelectionsResolvable(IF selection.typeCondition # ""
                              THEN selection.typeCondition ELSE type,
                              selection.selections, subschema)

RECURSIVE FieldPlanResolvable(_, _)
StitchPlansResolvable(stitchPlans) ==
  \A i \in 1..Len(stitchPlans) :
    \A j \in 1..Len(stitchPlans[i].value) :
       FieldPlanResolvable(stitchPlans[i].value[j].fieldPlan,
                           stitchPlans[i].value[j].type)

FieldPlanResolvable(plan, parentType) ==
  /\ \A i \in 1..Len(plan.subschemaPlans) :
       /\ SelectionsResolvable(parentType, plan.subschemaPlans[i].fieldNodes,
                               plan.subschemaPlans[i].toSubschema)
       /\ StitchPlansResolvable(plan.subschemaPlans[i].stitchPlans)
  /\ StitchPlansResolvable(plan.stitchPlans)

\* C10: in every FieldPlan the planner returns, root or supplemental, every
\* field node at every depth of a SubschemaPlan's fieldNodes is resolvable by
\* the SubschemaPlan's subschema.
C10_EveryPlannedFieldResolvable ==
  pc = "planned" => FieldPlanResolvable(fieldPlan, "Query")
\* ---- reading runs ----
Occurrences(seq, x) == Cardinality({i \in 1..Len(seq) : seq[i] = x})

\* the key of the fetch a handled result, or a pending promise, belongs to
KeyOf(e) == FetchKey(e.subschema, e.path)
PendingKey(i) == FetchKey(pending[i].stitch.initialResult.subschema,
                          pending[i].stitch.initialResult.path)

\* the fetch answers with data null, as a result or by rejecting
Fails(key) == OutcomeOf(Composer, key) \in {"null", "reject"}

\* the error the result of a fetch carries, if any
ErrorsOf(key) ==
  IF OutcomeOf(Composer, key) = "reject" THEN <<RejectionError(key)>>
  ELSE IF OutcomeOf(Composer, key) \in {"null", "okErr"} THEN <<SubschemaError(key)>>
  ELSE <<>>

TopLevelKeys == { FetchKey(calls[i].subschema, calls[i].path) :
                    i \in {j \in 1..Len(calls) : calls[j].top} }

\* every executor call has been answered and its result handled
AllSettled ==
  /\ Len(pending) = 0
  /\ promiseCount = 0
  /\ Len(log) = Len(calls)
  /\ \A i \in 1..Len(calls) :
       \E j \in 1..Len(log) : KeyOf(log[j]) = FetchKey(calls[i].subschema, calls[i].path)

\* C1: compose() answers only when every dispatched executor promise has
\* settled and its handler has run, follow-up fetches dispatched by a handler
\* included; once the response is built, no handler changes the data tree, the
\* errors or the nulled flag.
C1_ResponseAfterAllSettled ==
  /\ [](pc = "done" => AllSettled)
  /\ [][pc = "done" => UNCHANGED << heap, errors, nulled >>]_vars

\* a response was built after a promise of a follow-up fetch, dispatched by the
\* handler of a promise, had settled
C1_Witness ==
  /\ pc = "done"
  /\ \E i, j \in 1..Len(log) :
       /\ i < j
       /\ log[i].path = <<>> /\ log[i].subschema \in asyncSubschemas
       /\ log[j].path # <<>> /\ log[j].subschema \in asyncSubschemas
\* two lists hold the same elements the same number of times
SameElements(s, t) ==
  \A x \in {s[i] : i \in 1..Len(s)} \cup {t[i] : i \in 1..Len(t)} :
     Occurrences(s, x) = Occurrences(t, x)

\* C2: for a fixed plan and fixed per-fetch results, every order in which the
\* executor promises settle gives the same final data, and the same errors up
\* to their order: the response equals that of the run in which the promises
\* settle in the order they were created.
C2_ResponseIndependentOfOrder ==
  pc = "done" =>
    LET run == RunInDispatchOrder(fieldPlan, results, asyncSubschemas)
    IN  /\ Deref(heap, response.data) = Deref(run.heap, _buildResponse(run).data)
        /\ SameElements(response.errors, run.errors)

\* a top-level fetch failed
RootFailed == \E key \in TopLevelKeys : Fails(key)

\* C3: if a top-level result has data null, the final response has data null
\* whatever other top-level results arrive before or after it, and the errors
\* of every top-level result are in the final errors.
C3_RootNullNullsResponse ==
  (pc = "done" /\ RootFailed) =>
     /\ response.data = Null
     /\ \A key \in TopLevelKeys :
          \A i \in 1..Len(ErrorsOf(key)) : Has(response.errors, ErrorsOf(key)[i])

\* a top-level result with data and errors was handled, and discarded, after
\* the top-level result that nulled the response
C3_Witness ==
  /\ pc = "done"
  /\ \E i, j \in 1..Len(log) :
       /\ i < j
       /\ log[i].path = <<>> /\ log[i].failed
       /\ log[j].path = <<>> /\ ~log[j].failed /\ Len(log[j].errors) > 0
       /\ log[j].discarded

\* the value at a path of a response tree; null below a null
RECURSIVE ValueAt(_, _)
ValueAt(tree, path) ==
  IF Len(path) = 0 \/ tree.t \notin {"obj", "list"} THEN tree
  ELSE IF Head(path) \in DOMAIN tree.f
       THEN ValueAt(tree.f[Head(path)], Tail(path))
       ELSE [t |-> "undefined", s |-> "", f |-> NoKeys]

\* C4: when a follow-up fetch at a non-empty path returns data null, the slot
\* parent[path.last] becomes null, every later result of a follow-up to that
\* slot is discarded (it merges nothing and dispatches nothing), and the slot
\* is null in the final response.
C4_FailedFollowUpNullsSlot ==
  pc = "done" =>
    \A i \in 1..Len(log) :
       (log[i].path # <<>> /\ log[i].failed /\ ~log[i].discarded) =>
          /\ IsNull(heap, log[i].parent, log[i].parentKey)
          /\ \A j \in (i + 1)..Len(log) :
               (log[j].parent = log[i].parent /\ log[j].parentKey = log[i].parentKey)
                  => log[j].discarded
          /\ ValueAt(Deref(heap, response.data), log[i].path).t = "null"
\* C5: a rejected executor promise becomes a result with data null and exactly
\* one error that carries the exception as its cause, and that result is
\* handled like a returned one: unless discarded, it nulls the response (top
\* level) or the slot of its parent (follow-up).  compose() does not reject:
\* when a rejection is handled, no exception leaves the handler.
C5_RejectionIsHandledAsNullResult ==
  /\ [](\A i \in 1..Len(log) :
          OutcomeOf(Composer, KeyOf(log[i])) = "reject" =>
             /\ log[i].failed
             /\ log[i].errors = <<RejectionError(KeyOf(log[i]))>>
             /\ Occurrences(errors, RejectionError(KeyOf(log[i]))) = 1
             /\ ~log[i].discarded =>
                  IF log[i].path = <<>> THEN nulled
                  ELSE IsNull(heap, log[i].parent, log[i].parentKey))
  /\ [][\A i \in 1..Len(pending) :
          (OutcomeOf(Composer, PendingKey(i)) = "reject" /\ Len(log') > Len(log)
             /\ KeyOf(log'[Len(log) + 1]) = PendingKey(i))
          => (~thrown' /\ pc' = pc)]_vars
  /\ [](pc = "done" =>
          \A key \in DOMAIN results :
             (OutcomeOf(Composer, key) = "reject"
                /\ \E i \in 1..Len(calls) : FetchKey(calls[i].subschema, calls[i].path) = key)
             => Has(response.errors, RejectionError(key)))

\* the promise of a follow-up fetch rejected and its slot was nulled, and the
\* response was built
C5_Witness ==
  /\ pc = "done"
  /\ \E i \in 1..Len(log) :
       /\ OutcomeOf(Composer, KeyOf(log[i])) = "reject"
       /\ log[i].path # <<>>
       /\ ~log[i].discarded
       /\ IsNull(heap, log[i].parent, log[i].parentKey)
       /\ response.hasErrors

\* C6: every error of every result that reaches the handler is appended to
\* the accumulated errors exactly once, also when the gate discards the
\* result's data; the final response has an errors key exactly when the
\* accumulated list is not empty.
C6_ErrorsAppendedExactlyOnce ==
  /\ \A i \in 1..Len(log) :
       \A j \in 1..Len(log[i].errors) : Occurrences(errors, log[i].errors[j]) = 1
  /\ Len(errors) = Cardinality({i \in 1..Len(log) : Len(log[i].errors) > 0})
  /\ pc = "done" =>
       /\ response.errors = errors
       /\ response.hasErrors <=> Len(errors) > 0

\* a result with an error was discarded by the gate, and the response was built
C6_Witness ==
  /\ pc = "done"
  /\ response.hasErrors
  /\ \E i \in 1..Len(log) : log[i].discarded /\ Len(log[i].errors) > 0

\* the step changed no slot of the data tree but parent[parentKey], and not
\* the nulled flag
OnlySlotChanged(parent, parentKey) ==
  /\ Len(heap') = Len(heap)
  /\ \A id \in 1..Len(heap) :
       /\ heap'[id].kind = heap[id].kind
       /\ DOMAIN heap'[id].f = DOMAIN heap[id].f
                               \cup (IF id = parent THEN {parentKey} ELSE {})
       /\ \A k \in DOMAIN heap[id].f :
            (id # parent \/ k # parentKey) => heap'[id].f[k] = heap[id].f[k]
  /\ nulled' = nulled

\* C7: a failed follow-up (data null or rejection) at path p changes only the
\* slot at p; data merged at every other path is unchanged, and compose()
\* still returns a response that contains it.
C7_FailedFollowUpChangesOnlyItsSlot ==
  /\ [][\A i \in 1..Len(pending) :
          (pending[i].parent # NoParent /\ Fails(PendingKey(i))
             /\ Len(log') = Len(log) + 1
             /\ KeyOf(log'[Len(log')]) = PendingKey(i))
          => (OnlySlotChanged(pending[i].parent, pending[i].path[Len(pending[i].path)])
                /\ ~thrown')]_vars
  /\ [](pc = "done" /\ ~RootFailed => response.data = Ref(FieldsId))

\* a follow-up failed after data was merged, and the response holds the data
C7_Witness ==
  /\ pc = "done"
  /\ response.data = Ref(FieldsId)
  /\ DOMAIN heap[FieldsId].f # {}
  /\ \E i \in 1..Len(log) :
       /\ log[i].path # <<>> /\ log[i].failed /\ ~log[i].discarded
       /\ log[i].subschema \in asyncSubschemas
\* ---- reading calls ----
TopLevelCallsTo(s) ==
  Cardinality({i \in 1..Len(calls) : calls[i].top /\ calls[i].subschema = s})

HasSubschemaPlan(plan, s) ==
  \E i \in 1..Len(plan.subschemaPlans) : plan.subschemaPlans[i].toSubschema = s

\* every field of the selections, at every depth, is defined by s and by no
\* other subschema
RECURSIVE OnlyDefinedBy(_, _, _)
OnlyDefinedBy(type, selections, s) ==
  \A i \in 1..Len(selections) :
    LET selection == selections[i] IN
    IF selection.kind = "Field"
    THEN /\ subschemaSetsByTypeAndField(type, selection.name) = <<s>>
         /\ selection.hasSelectionSet =>
              OnlyDefinedBy(getFieldDef(type, selection.name).type,
                            selection.selections, s)
    ELSE OnlyDefinedBy(IF selection.typeCondition # ""
                       THEN selection.typeCondition ELSE type,
                       selection.selections, s)

CallFieldNodes(key) ==
  LET i == CHOOSE j \in 1..Len(calls) :
             FetchKey(calls[j].subschema, calls[j].path) = key
  IN  calls[i].fieldNodes

\* C9: for an object whose fields are split across two subschemas (parent
\* fetched from one, the remaining fields by a follow-up to another), the
\* object in the final response has the fields of both and no key
\* __stitching__typename.
C9_MergedObjectHasNoStitchingTypename ==
  (pc = "done" /\ \A key \in DOMAIN results : OutcomeOf(Composer, key) = "ok") =>
    \A i \in 1..Len(log) :
      log[i].path # <<>> =>
        LET obj == ValueAt(Deref(heap, response.data), log[i].path)
            asked == CallFieldNodes(KeyOf(log[i]))
            followUpKeys == {ResponseKey(asked[n]) : n \in 1..Len(asked)}
        IN  /\ obj.t = "obj"
            /\ followUpKeys \subseteq DOMAIN obj.f
            /\ \E k \in DOMAIN obj.f : k \notin followUpKeys \cup {StitchingTypename}
            /\ StitchingTypename \notin DOMAIN obj.f
\* ---- reading stitch plans ----
\* the field nodes of a selection set, those inside inline fragments included
RECURSIVE FieldsOf(_)
FieldsOf(selections) ==
  IF Len(selections) = 0 THEN <<>>
  ELSE (IF Head(selections).kind = "Field" THEN <<Head(selections)>>
        ELSE FieldsOf(Head(selections).selections))
       \o FieldsOf(Tail(selections))

\* the selection set asks for __typename under the alias __stitching__typename
HasMarker(selections) ==
  \E i \in 1..Len(FieldsOf(selections)) :
     /\ FieldsOf(selections)[i].name = TypeNameMetaFieldDef
     /\ FieldsOf(selections)[i].alias = StitchingTypename

\* every stitch plan of the plan tree hangs under a key whose object is
\* fetched with the marker; fetched: the selections that fetch the object the
\* field plan was made for
RECURSIVE StitchPlansMarked(_, _)
RECURSIVE FieldPlanMarked(_, _)
StitchPlansMarked(stitchPlans, fetched) ==
  \A i \in 1..Len(stitchPlans) :
    LET nodes == SelectSeq(FieldsOf(fetched),
                           LAMBDA n : ResponseKey(n) = stitchPlans[i].key)
    IN  /\ Len(nodes) > 0
        /\ \A n \in 1..Len(nodes) : HasMarker(nodes[n].selections)
        /\ \A j \in 1..Len(stitchPlans[i].value) :
             FieldPlanMarked(stitchPlans[i].value[j].fieldPlan, nodes[1].selections)

FieldPlanMarked(plan, fetched) ==
  /\ \A i \in 1..Len(plan.subschemaPlans) :
       StitchPlansMarked(plan.subschemaPlans[i].stitchPlans,
                         plan.subschemaPlans[i].fieldNodes)
  /\ StitchPlansMarked(plan.stitchPlans, fetched)

\* C11: for every stitch plan of a plan tree, at any depth, also inside
\* supplemental plans, the selection set that fetches the object under the
\* stitch key contains __typename aliased as __stitching__typename.
C11_EveryStitchedSelectionHasMarker ==
  pc = "planned" => FieldPlanMarked(fieldPlan, <<>>)
\* ---- reading the data a handled result was walked over ----
\* the value is an object without a marker that names an object type
UnmarkedObject(value) ==
  /\ value.t = "ref"
  /\ heap[value.r].kind = "obj"
  /\ \/ StitchingTypename \notin DOMAIN heap[value.r].f
     \/ heap[value.r].f[StitchingTypename].t # "scalar"
     \/ heap[value.r].f[StitchingTypename].s \notin (TypeNames \ AbstractTypes)

\* the first level of the stitch trees of a handled result meets such an
\* object, directly or as an element of a list
MeetsUnmarked(e) ==
  \E i \in 1..Len(e.stitchTrees) :
    LET key == e.stitchTrees[i].key IN
    /\ key \in DOMAIN heap[e.data].f
    /\ LET value == heap[e.data].f[key] IN
       \/ UnmarkedObject(value)
       \/ /\ value.t = "ref"
          /\ heap[value.r].kind = "list"
          /\ \E k \in DOMAIN heap[value.r].f : UnmarkedObject(heap[value.r].f[k])

\* C13: if an object at a stitch point has no __stitching__typename, or the
\* name does not denote an object type of the super-schema, the Composer
\* raises an internal invariant failure: the run ends with an exception, no
\* response is built, and nothing but the errors of subschema results is in
\* errors.
C13_UnmarkedObjectIsInvariantFailure ==
  /\ \A i \in 1..Len(log) :
       (~log[i].failed /\ ~log[i].discarded /\ MeetsUnmarked(log[i]))
          => (thrown /\ pc = "thrown")
  /\ thrown =>
       /\ response = NoResponse
       /\ \A n \in 1..Len(errors) : \E i \in 1..Len(log) : Has(log[i].errors, errors[n])

\* the walk over a handled result met an object without a usable marker,
\* after an error of a subschema result had been recorded
C13_Witness ==
  /\ pc = "thrown"
  /\ \E i \in 1..Len(log) :
       /\ ~log[i].failed /\ ~log[i].discarded /\ MeetsUnmarked(log[i])
       /\ Len(errors) > 0
\* ---- reading follow-ups to list elements ----
IsIndex(key) == \E n \in 1..Len(IndexKey) : IndexKey[n] = key

\* the handled result answers a follow-up for an element of a list
ForElement(e) == Len(e.path) >= 2 /\ IsIndex(e.path[Len(e.path)])

CallOf(key) ==
  calls[CHOOSE j \in 1..Len(calls) : FetchKey(calls[j].subschema, calls[j].path) = key]

\* some handled result has, under the key of the list, a stitch tree whose
\* field plan for the given type sends these field nodes to the subschema
PlannedForType(e, typeName, fieldNodes) ==
  \E p \in 1..Len(log) : \E t \in 1..Len(log[p].stitchTrees) :
    /\ log[p].stitchTrees[t].key = e.path[Len(e.path) - 1]
    /\ \E a \in 1..Len(log[p].stitchTrees[t].value) :
         LET arm == log[p].stitchTrees[t].value[a] IN
         /\ arm.type = typeName
         /\ \E n \in 1..Len(arm.fieldPlan.subschemaPlans) :
              /\ arm.fieldPlan.subschemaPlans[n].toSubschema = e.subschema
              /\ arm.fieldPlan.subschemaPlans[n].fieldNodes = fieldNodes

\* the step changed no object but the target, and added objects at most
OnlyTargetChanged(target) ==
  /\ Len(heap') >= Len(heap)
  /\ \A id \in 1..Len(heap) : id # target => heap'[id] = heap[id]

\* C12: when the value under a stitch key is a list, each element is resolved
\* separately: the follow-ups for element i are those of the field plan for
\* the type its own __stitching__typename names, their path ends with the
\* index i, and their results are merged into element i only.
C12_ListElementsResolvedSeparately ==
  /\ [](\A n \in 1..Len(log) :
          ForElement(log[n]) =>
            LET e == log[n]
                called == CallOf(KeyOf(e))
            IN  /\ heap[e.parent].kind = "list"
                /\ heap[e.parent].f[e.parentKey] \in {Ref(e.target), Null}
                /\ heap[e.target].f[StitchingTypename] = Scalar(called.type)
                /\ PlannedForType(e, called.type, called.fieldNodes)
                /\ (~e.failed /\ ~e.discarded) =>
                     \A k \in DOMAIN heap[e.data].f :
                        heap[e.target].f[k] = heap[e.data].f[k])
  /\ [][\A i \in 1..Len(pending) :
          (ForElement(pending[i])
             /\ Len(log') = Len(log) + 1
             /\ KeyOf(log'[Len(log')]) = PendingKey(i)
             /\ ~log'[Len(log')].failed)
          => OnlyTargetChanged(pending[i].fields)]_vars

\* the elements of a list of two concrete types were each completed by their
\* own follow-up
C12_Witness ==
  /\ pc = "done"
  /\ \E n, m \in 1..Len(log) :
       /\ ForElement(log[n]) /\ ForElement(log[m])
       /\ log[n].parent = log[m].parent
       /\ log[n].parentKey # log[m].parentKey
       /\ CallOf(KeyOf(log[n])).type # CallOf(KeyOf(log[m])).type
       /\ ~log[n].failed /\ ~log[m].failed
       /\ log[n].subschema \in asyncSubschemas

\* ---- reading fields without follow-ups ----
\* whichever subschema of the field is chosen, no possible type of the
\* field's return type has a supplemental field plan with something in it
NoSupplementalPlan(field) ==
  LET fieldType == getFieldDef("Query", field.name).type
      types == IF isAbstractType(fieldType) THEN PossibleTypes[fieldType]
               ELSE <<fieldType>>
      subschemaSet == subschemaSetsByTypeAndField("Query", field.name)
  IN  \A s \in 1..Len(subschemaSet) : \A i \in 1..Len(types) :
        LET split == _createSelectionSplit(fieldType, field.selections,
                                           subschemaSet[s], Undefined)
            plan == _createSupplementalFieldPlan(
                      types[i], _collectSubFields(types[i], split.otherSelections),
                      subschemaSet[s])
        IN  Len(plan.subschemaPlans) = 0 /\ Len(plan.stitchPlans) = 0

HasStitchPlan(stitchPlans, key) ==
  \E i \in 1..Len(stitchPlans) : stitchPlans[i].key = key

\* the root field asks, besides its own fields, for a field of another
\* subschema, and its return type is an interface nothing implements
AsksBeyondEmptyType(field) ==
  /\ field.hasSelectionSet
  /\ isAbstractType(getFieldDef("Query", field.name).type)
  /\ Len(PossibleTypes[getFieldDef("Query", field.name).type]) = 0
  /\ \E i \in 1..Len(field.selections) :
       subschemaSetsByTypeAndField(getFieldDef("Query", field.name).type,
                                   field.selections[i].name)
         # subschemaSetsByTypeAndField("Query", field.name)

\* C14: when the return type of a field is abstract and has no possible type,
\* or no possible type has a supplemental plan with something in it, no
\* stitch plan is attached under the response key of the field, in the root
\* field plan or in a subschema plan, no handled result has a stitch tree
\* under that key, and no follow-up is dispatched below that key.
C14_EmptyStitchPlanIsNotAttached ==
  \A n \in 1..Len(operation) :
    (operation[n].hasSelectionSet /\ NoSupplementalPlan(operation[n])) =>
      LET key == ResponseKey(operation[n]) IN
      /\ ~HasStitchPlan(fieldPlan.stitchPlans, key)
      /\ \A i \in 1..Len(fieldPlan.subschemaPlans) :
           ~HasStitchPlan(fieldPlan.subschemaPlans[i].stitchPlans, key)
      /\ \A i \in 1..Len(log) :
           \A t \in 1..Len(log[i].stitchTrees) : log[i].stitchTrees[t].key # key
      /\ \A j \in 1..Len(calls) :
           Len(calls[j].path) > 0 => calls[j].path[1] # key

\* a run over a field of an interface without possible types ended with a
\* response after the one call that fetched the field
C14_Witness ==
  /\ pc = "done"
  /\ response # NoResponse
  /\ Len(calls) = 1
  /\ \E n \in 1..Len(operation) :
       AsksBeyondEmptyType(operation[n]) /\ NoSupplementalPlan(operation[n])

\* the keys of the object a result holds under key, when it holds one
SubKeys(data, key) ==
  IF key \in DOMAIN heap[data].f /\ heap[data].f[key].t = "ref"
       /\ heap[heap[data].f[key].r].kind = "obj"
  THEN DOMAIN heap[heap[data].f[key].r].f
  ELSE {}

\* two results merged into the response hold objects with disjoint sub-keys
\* under one key
ContributeToOneObject(i, j, key) ==
  /\ i # j
  /\ log[i].target = FieldsId /\ log[j].target = FieldsId
  /\ ~log[i].failed /\ ~log[i].discarded
  /\ ~log[j].failed /\ ~log[j].discarded
  /\ SubKeys(log[i].data, key) # {} /\ SubKeys(log[j].data, key) # {}
  /\ SubKeys(log[i].data, key) \cap SubKeys(log[j].data, key) = {}

\* C24: merging results into the response is a deep merge: when two results
\* contribute objects with disjoint sub-keys under the same key, the object
\* of the final response holds the sub-keys of both, whatever the order of
\* arrival.
C24_MergeIsDeep ==
  (pc = "done" /\ pending = <<>> /\ ~nulled)
  => \A i, j \in 1..Len(log) : \A key \in DOMAIN heap[FieldsId].f :
       ContributeToOneObject(i, j, key)
       => (SubKeys(log[i].data, key) \cup SubKeys(log[j].data, key))
            \subseteq SubKeys(FieldsId, key)

\* C25: every document sent to a subschema, for a top-level fetch and for a
\* follow-up alike, has one operation with the kind, name and variable
\* definitions of the original operation, the field nodes of the
\* SubschemaPlan as its selection set, and the fragment definitions of the
\* original document.
C25_DocumentsKeepTheOperation ==
  \A i \in 1..Len(calls) :
    calls[i].document =
      Document(original.operation, original.name, original.variableDefinitions,
               calls[i].fieldNodes, original.fragments)

\* every executor invoked so far returned a plain result, not a promise
EveryResultIsPlain ==
  \A i \in 1..Len(calls) : calls[i].subschema \notin asyncSubschemas

\* C28: when every executor invoked, for a top-level fetch or a follow-up,
\* returns a plain result, compose() has its response when it returns: it
\* never waits, no promise is pending, and the response is the one built
\* from the fields and errors at that moment.
C28_PlainResultsGiveASynchronousResponse ==
  (pc # "start" /\ ~thrown /\ EveryResultIsPlain)
  => /\ pc = "done"
     /\ pending = <<>>
     /\ promiseCount = 0
     /\ response = _buildResponse(Composer)

C28_Witness ==
  /\ pc = "done"
  /\ EveryResultIsPlain
  /\ \E i \in 1..Len(calls) : ~calls[i].top
  /\ \E i \in 1..Len(calls) : calls[i].top
  /\ response.data # Null

(***************************************************************************)
(* Part 7: the entry point                                                 *)
(*                                                                         *)
(* A document is a sequence of definitions; an operation definition has    *)
(* an operation kind, a name ("" when anonymous), variable definitions    *)
(* and root selections.  The value of a variable input is told by its      *)
(* kind: "int", "string" or "null".                                        *)
(***************************************************************************)
NoName == ""
MaxCoercionErrors == 50

GraphQLError(message) == [message |-> message]

VariableDefinition(name, type, nonNull, defaultValue) ==
  [name |-> name, type |-> type, nonNull |-> nonNull, defaultValue |-> defaultValue]

OperationDefinition(kind, name, variableDefinitions, selections) ==
  [ kind |-> "OperationDefinition", operation |-> kind, name |-> name,
    variableDefinitions |-> variableDefinitions, selections |-> selections ]

FragmentDefinition(name) ==
  [ kind |-> "FragmentDefinition", operation |-> "", name |-> name,
    variableDefinitions |-> <<>>, selections |-> <<>> ]

NoOperation == OperationDefinition("", NoName, <<>>, <<>>)

\* ---- SuperSchema: root types and variable coercion ----
RootTypeNames ==
  [query |-> "Query", mutation |-> "Mutation", subscription |-> "Subscription"]

\* mergedRootTypes[operation]: there is one when a subschema has a root type
\* for the operation kind
getRootType(kind) ==
  IF \E i \in 1..Len(Subschemas) :
       /\ RootTypeNames[kind] \in DOMAIN schema[Subschemas[i]]
       /\ schema[Subschemas[i]][RootTypeNames[kind]] # {}
  THEN RootTypeNames[kind] ELSE Undefined

InputTypes == {"Int", "String", "ID", "[Int]"}

\* onError of getVariableValues: the error is kept, or the limit is reached
\* and the coercion is aborted with one more error
OnError_OneMore(state, error) ==
  IF "maxErrors" \in DOMAIN state.options /\ Len(state.errors) > state.options.maxErrors
  THEN [state EXCEPT !.aborted = TRUE,
          !.errors = Append(@, GraphQLError("Too many errors processing variables, error limit reached. Execution aborted."))]
  ELSE [state EXCEPT !.errors = Append(@, error)]

OnError(state, error) ==
  IF "maxErrors" \in DOMAIN state.options /\ Len(state.errors) >= state.options.maxErrors
  THEN [state EXCEPT !.aborted = TRUE,
          !.errors = Append(@, GraphQLError("Too many errors processing variables, error limit reached. Execution aborted."))]
  ELSE [state EXCEPT !.errors = Append(@, error)]

VariableError(name, message) ==
  [message |-> message, variable |-> name]

\* graphql's coerceInputValue reports every invalid value it meets: a value
\* is an "int", a "string", "null", or "strings", a list of two strings
InvalidValues(value, type) ==
  IF type \notin {"Int", "[Int]"} THEN 0
  ELSE IF value = "string" THEN 1
  ELSE IF value = "strings" THEN (IF type = "[Int]" THEN 2 ELSE 1)
  ELSE 0

RECURSIVE ReportInvalid(_, _, _)
ReportInvalid(state, varName, n) ==
  IF n = 0 \/ state.aborted THEN state
  ELSE ReportInvalid(OnError(state, VariableError(varName, "got invalid value")),
                     varName, n - 1)

coerceInputValue(state, varName, value, type) ==
  IF InvalidValues(value, type) = 0
  THEN [state EXCEPT !.coerced = (varName :> value) @@ @]
  ELSE ReportInvalid(state, varName, InvalidValues(value, type))

RECURSIVE _coerceVariableValues(_, _, _)
_coerceVariableValues(varDefNodes, inputs, state) ==
  IF Len(varDefNodes) = 0 \/ state.aborted THEN state
  ELSE
  LET varDefNode == Head(varDefNodes)
      varName == varDefNode.name
      next ==
        IF varDefNode.type \notin InputTypes
        THEN OnError(state, VariableError(varName, "cannot be used as an input type"))
        ELSE IF varName \notin DOMAIN inputs
        THEN IF varDefNode.defaultValue # Undefined
             THEN [state EXCEPT !.coerced = (varName :> varDefNode.defaultValue) @@ @]
             ELSE IF varDefNode.nonNull
                  THEN OnError(state, VariableError(varName, "was not provided"))
                  ELSE state
        ELSE IF inputs[varName] = "null" /\ varDefNode.nonNull
        THEN OnError(state, VariableError(varName, "must not be null"))
        ELSE coerceInputValue(state, varName, inputs[varName], varDefNode.type)
  IN  _coerceVariableValues(Tail(varDefNodes), inputs, next)

NoInputs == [n \in {} |-> "null"]

getVariableValues_DropsErrors(varDefNodes, inputs, options) ==
  LET state == _coerceVariableValues(varDefNodes, inputs,
                 [errors |-> <<>>, coerced |-> NoInputs, aborted |-> FALSE,
                  options |-> options])
  IN  [hasErrors |-> FALSE, errors |-> <<>>, coerced |-> state.coerced]

getVariableValues(varDefNodes, inputs, options) ==
  LET state == _coerceVariableValues(varDefNodes, inputs,
                 [errors |-> <<>>, coerced |-> NoInputs, aborted |-> FALSE,
                  options |-> options])
  IN  IF Len(state.errors) = 0
      THEN [hasErrors |-> FALSE, errors |-> <<>>, coerced |-> state.coerced]
      ELSE [hasErrors |-> TRUE, errors |-> state.errors, coerced |-> NoInputs]

\* ---- buildExecutionContext ----
\* the loop over document.definitions; chosen is the index of the
\* definition chosen so far, 0 when there is none
RECURSIVE SelectOperation(_, _, _, _)
SelectOperation_LastWins(definitions, operationName, i, chosen) ==
  IF i > Len(definitions) THEN [multiple |-> FALSE, operation |-> chosen]
  ELSE IF definitions[i].kind # "OperationDefinition"
  THEN SelectOperation(definitions, operationName, i + 1, chosen)
  ELSE IF operationName = NoName \/ definitions[i].name = operationName
  THEN SelectOperation(definitions, operationName, i + 1, i)
  ELSE SelectOperation(definitions, operationName, i + 1, chosen)

SelectOperation(definitions, operationName, i, chosen) ==
  IF i > Len(definitions) THEN [multiple |-> FALSE, operation |-> chosen]
  ELSE IF definitions[i].kind # "OperationDefinition"
  THEN SelectOperation(definitions, operationName, i + 1, chosen)
  ELSE IF operationName = NoName
  THEN IF chosen # 0 THEN [multiple |-> TRUE, operation |-> chosen]
       ELSE SelectOperation(definitions, operationName, i + 1, i)
  ELSE IF definitions[i].name = operationName
  THEN SelectOperation(definitions, operationName, i + 1, i)
  ELSE SelectOperation(definitions, operationName, i + 1, chosen)

\* the errors alone, without an operation context
ContextErrors(graphQLErrors, coercions) ==
  [ operationContext |-> FALSE, errors |-> graphQLErrors, operation |-> NoOperation,
    coercedVariableValues |-> NoInputs, coercions |-> coercions ]

\* coercions counts the calls of getVariableValues
buildExecutionContext(a) ==
  LET selected == SelectOperation(a.document, a.operationName, 1, 0) IN
  IF selected.multiple
  THEN ContextErrors(<<GraphQLError("Must provide operation name if query contains multiple operations.")>>, 0)
  ELSE IF selected.operation = 0
  THEN IF a.operationName # NoName
       THEN ContextErrors(<<GraphQLError("Unknown operation named \"" \o a.operationName \o "\".")>>, 0)
       ELSE ContextErrors(<<GraphQLError("Must provide an operation.")>>, 0)
  ELSE
  LET operationNode == a.document[selected.operation]
      coercedVariableValues ==
        getVariableValues(operationNode.variableDefinitions, a.variableValues,
                          [maxErrors |-> MaxCoercionErrors])
  IN  IF coercedVariableValues.hasErrors
      THEN ContextErrors(coercedVariableValues.errors, 1)
      ELSE [ operationContext |-> TRUE, errors |-> <<>>, operation |-> operationNode,
             coercedVariableValues |-> coercedVariableValues.coerced,
             coercions |-> 1 ]

\* ---- Plan: the root selections sent to each subschema ----
\* plan.map is a JS Map, in insertion order: a sequence of entries.  The
\* operations of this part select fields without selection sets.
MapIndex(map, subschema) ==
  IF \E i \in 1..Len(map) : map[i].subschema = subschema
  THEN CHOOSE i \in 1..Len(map) : map[i].subschema = subschema
  ELSE 0

_getSubschemaAndSelections(subschemaSet, map) ==
  LET held == {i \in 1..Len(subschemaSet) : MapIndex(map, subschemaSet[i]) # 0}
  IN  IF held # {}
      THEN [subschema |-> subschemaSet[CHOOSE i \in held : \A j \in held : i <= j],
            map |-> map]
      ELSE [subschema |-> subschemaSet[1],
            map |-> Append(map, [subschema |-> subschemaSet[1], selections |-> <<>>])]

RECURSIVE _splitSelections(_, _, _)
_splitSelections(parentType, selections, map) ==
  IF Len(selections) = 0 THEN map
  ELSE LET field == Head(selections)
           subschemaSet == subschemaSetsByTypeAndField(parentType, field.name)
       IN  IF Len(subschemaSet) = 0
           THEN _splitSelections(parentType, Tail(selections), map)
           ELSE LET got == _getSubschemaAndSelections(subschemaSet, map)
                    i == MapIndex(got.map, got.subschema)
                IN  _splitSelections(parentType, Tail(selections),
                                     [got.map EXCEPT ![i].selections = Append(@, field)])

\* ---- results ----
NoData == [null |-> TRUE, keys |-> {}]
DataOf(keys) == [null |-> FALSE, keys |-> keys]

\* a response: hasData tells whether the object has a data key at all;
\* incremental: { initialResult, subsequentResults }, the other fields being
\* those of initialResult and subsequentResults the streams it hands on, each
\* named by the subschema it comes from; stream: a lazy sequence
Result(hasData, data, graphQLErrors) ==
  [ hasData |-> hasData, data |-> data, errors |-> graphQLErrors,
    hasNext |-> FALSE, incremental |-> FALSE, subsequentResults |-> {},
    stream |-> FALSE ]

NoOutcome == <<>>

Invocation(kind, entry) ==
  [kind |-> kind, subschema |-> entry.subschema, selections |-> entry.selections]

\* what subschema.executor returns for the selections it is sent
ExecutorResult(a, entry) ==
  LET keys == {ResponseKey(entry.selections[i]) : i \in 1..Len(entry.selections)}
  IN  CASE a.behaviour[entry.subschema] = "data" ->
             Result(TRUE, DataOf(keys), <<>>)
        [] a.behaviour[entry.subschema] = "null" ->
             Result(TRUE, NoData, <<GraphQLError("failed in " \o entry.subschema)>>)
        [] a.behaviour[entry.subschema] = "incremental" ->
             [Result(TRUE, DataOf(keys), <<>>)
                EXCEPT !.hasNext = TRUE, !.incremental = TRUE,
                       !.subsequentResults = {entry.subschema}]

\* what subschema.subscriber returns
SubscriberResult(a, entry) ==
  IF a.behaviour[entry.subschema] = "null"
  THEN Result(FALSE, NoData, <<GraphQLError("failed in " \o entry.subschema)>>)
  ELSE [Result(FALSE, NoData, <<>>) EXCEPT !.stream = TRUE]

RECURSIVE MergeInitialLoop(_, _)
MergeInitialLoop(initialResults, acc) ==
  IF Len(initialResults) = 0 THEN acc
  ELSE LET result == Head(initialResults)
           withErrors == [acc EXCEPT !.errors = @ \o result.errors]
           next ==
             IF acc.nullData THEN withErrors
             ELSE IF result.data.null THEN [withErrors EXCEPT !.nullData = TRUE]
             ELSE [withErrors EXCEPT !.keys = @ \cup result.data.keys]
       IN  MergeInitialLoop(Tail(initialResults), next)

mergeInitialResults(initialResults, hasNext) ==
  LET merged == MergeInitialLoop(initialResults,
                  [keys |-> {}, errors |-> <<>>, nullData |-> FALSE])
  IN  [Result(TRUE, IF merged.nullData THEN NoData ELSE DataOf(merged.keys),
              merged.errors)
         EXCEPT !.hasNext = hasNext]

\* Repeater.merge(asyncIterators): one stream of the values of all of them
mergeSubsequentResults(asyncIterators) ==
  UNION {asyncIterators[i] : i \in 1..Len(asyncIterators)}

\* the subsequentResults of the results that have an initialResult
AsyncIteratorsOf(executorResults) ==
  SelectSeq([i \in 1..Len(executorResults) |->
               IF executorResults[i].incremental
               THEN executorResults[i].subsequentResults ELSE {}],
            LAMBDA streams : streams # {})

handlePossibleMultiPartResults_WithoutHasNext(executorResults) ==
  IF Len(executorResults) = 1 THEN executorResults[1]
  ELSE IF Len(AsyncIteratorsOf(executorResults)) = 0
  THEN mergeInitialResults(executorResults, FALSE)
  ELSE [mergeInitialResults(executorResults, FALSE)
          EXCEPT !.incremental = TRUE,
                 !.subsequentResults =
                    mergeSubsequentResults(AsyncIteratorsOf(executorResults))]

handlePossibleMultiPartResults(executorResults) ==
  IF Len(executorResults) = 1 THEN executorResults[1]
  ELSE IF Len(AsyncIteratorsOf(executorResults)) = 0
  THEN mergeInitialResults(executorResults, FALSE)
  ELSE [mergeInitialResults(executorResults, TRUE)
          EXCEPT !.incremental = TRUE,
                 !.subsequentResults =
                    mergeSubsequentResults(AsyncIteratorsOf(executorResults))]

\* ---- PlanResult ----
\* constructor; _consolidator: undefined, or the streams the Consolidator holds
NewPlanResult ==
  [ _data |-> {}, _nullData |-> FALSE, _errors |-> <<>>,
    _consolidator |-> [set |-> FALSE, sources |-> {}, closed |-> FALSE] ]

_handleSingleResult(p, result) ==
  LET pushed == [p EXCEPT !._errors = @ \o result.errors] IN
  IF p._nullData THEN pushed
  ELSE IF result.data.null THEN [pushed EXCEPT !._nullData = TRUE]
  ELSE [pushed EXCEPT !._data = @ \cup result.data.keys]

_handlePossibleMultiPartResult(p, result) ==
  IF result.incremental
  THEN LET handled == _handleSingleResult(p, result) IN
       IF ~p._consolidator.set
       THEN [handled EXCEPT !._consolidator =
               [set |-> TRUE, sources |-> result.subsequentResults, closed |-> FALSE]]
       ELSE [handled EXCEPT !._consolidator.sources = @ \cup result.subsequentResults]
  ELSE _handleSingleResult(p, result)

_return(p) ==
  LET dataOrNull == IF p._nullData THEN NoData ELSE DataOf(p._data) IN
  IF p._consolidator.set
  THEN [Result(TRUE, dataOrNull, p._errors)
          EXCEPT !.hasNext = TRUE, !.incremental = TRUE,
                 !.subsequentResults = p._consolidator.sources]
  ELSE Result(TRUE, dataOrNull, p._errors)

RECURSIVE HandleResults(_, _)
HandleResults(p, handled) ==
  IF Len(handled) = 0 THEN p
  ELSE HandleResults(_handlePossibleMultiPartResult(p, Head(handled)), Tail(handled))

_handlePossibleStream(result) == result

\* ---- the ExecutionArgs ----
VarN == VariableDefinition("n", "Int", TRUE, Undefined)
VarD == VariableDefinition("d", "Int", FALSE, "int")
VarU == VariableDefinition("u", "User", FALSE, Undefined)

Q1 == OperationDefinition("query", "Q1", <<>>, <<Leaf("a"), Leaf("b")>>)
Q2 == OperationDefinition("query", "Q2", <<VarN, VarD>>, <<Leaf("a")>>)
M1 == OperationDefinition("mutation", "M1", <<VarU>>, <<Leaf("a")>>)
S1 == OperationDefinition("subscription", "S1", <<VarD>>, <<Leaf("tick")>>)
S2 == OperationDefinition("subscription", "S2", <<>>, <<Leaf("gone")>>)
Anonymous == OperationDefinition("query", NoName, <<>>, <<Leaf("b")>>)

Documents ==
  { <<Q1>>, <<Q2>>, <<S1>>, <<S2>>, <<Anonymous>>, <<FragmentDefinition("F")>>,
    <<Q1, Q2>>, <<FragmentDefinition("F"), Q2, S1>>, <<Q1, M1, S1>> }

OperationNames == {NoName, "Q2", "S1", "M1", "X"}

VariableValueChoices ==
  { NoInputs, "n" :> "int", "n" :> "null",
    ("n" :> "int") @@ ("d" :> "string"),
    ("n" :> "string") @@ ("d" :> "string") }

SubscriberChoices == { {}, {"A"}, {"B", "C"} }

BehaviourChoices ==
  { [s \in {"A", "B", "C"} |-> "data"],
    [s \in {"A", "B", "C"} |-> IF s = "A" THEN "null" ELSE "data"],
    [s \in {"A", "B", "C"} |-> IF s = "B" THEN "incremental" ELSE "data"],
    [s \in {"A", "B", "C"} |-> IF s = "C" THEN "data" ELSE "incremental"] }

ArgsChoices ==
  [ document : Documents, operationName : OperationNames,
    variableValues : VariableValueChoices, subscribers : SubscriberChoices,
    behaviour : BehaviourChoices, async : { {}, {"A"} } ]

\* the planner and the composer are not in use
RunIdle ==
  /\ superSchema = <<>>
  /\ coercion = <<>>
  /\ original = <<>>
  /\ operation = <<>>
  /\ planFieldNodes = <<>>
  /\ fieldPlan = EmptyFieldPlan
  /\ asyncSubschemas = {}
  /\ results = NoResults
  /\ heap = <<>>
  /\ errors = <<>>
  /\ nulled = FALSE
  /\ promiseCount = 0
  /\ pending = <<>>
  /\ calls = <<>>
  /\ thrown = FALSE
  /\ log = <<>>
  /\ response = NoResponse
  /\ pc = "idle"

InitEntry ==
  /\ schema \in SchemaChoices
  /\ args \in ArgsChoices
  /\ exeContext = <<>>
  /\ planMap = <<>>
  /\ invocations = <<>>
  /\ promised = <<>>
  /\ outcome = NoOutcome
  /\ entryPc = "start"
  /\ planResult = <<>>
  /\ RunIdle
  /\ ConsolidatorIdle

\* the entry point returns at once
Return(result) ==
  /\ outcome' = result
  /\ promised' = <<>>
  /\ entryPc' = "done"
  /\ planResult' = planResult

\* the entry point returns a promise of the results
Await(executorResults) ==
  /\ outcome' = NoOutcome
  /\ promised' = executorResults
  /\ entryPc' = "waiting"
  /\ planResult' = planResult

\* execute(args)
Execute ==
  /\ entryPc = "start"
  /\ LET context == buildExecutionContext(args) IN
     /\ exeContext' = context
     /\ IF ~context.operationContext
        THEN /\ Return(Result(FALSE, NoData, context.errors))
             /\ planMap' = <<>>
             /\ invocations' = <<>>
        ELSE IF getRootType(context.operation.operation) = Undefined
        THEN /\ Return(Result(TRUE, NoData,
                  <<GraphQLError("Schema is not configured to execute "
                       \o context.operation.operation \o " operation.")>>))
             /\ planMap' = <<>>
             /\ invocations' = <<>>
        ELSE LET map == _splitSelections(getRootType(context.operation.operation),
                                         context.operation.selections, <<>>)
                 executorResults == [i \in 1..Len(map) |-> ExecutorResult(args, map[i])]
             IN  /\ planMap' = map
                 /\ invocations' = [i \in 1..Len(map) |-> Invocation("executor", map[i])]
                 /\ IF \E i \in 1..Len(map) : map[i].subschema \in args.async
                    THEN Await(executorResults)
                    ELSE Return(handlePossibleMultiPartResults(executorResults))
  /\ UNCHANGED << schema, args, runVars, consolidator >>

\* results.then(handlePossibleMultiPartResults)
ResultsResolved ==
  /\ entryPc = "waiting"
  /\ invocations[1].kind = "executor"
  /\ Return(handlePossibleMultiPartResults(promised))
  /\ UNCHANGED << schema, args, exeContext, planMap, invocations, runVars,
                  consolidator >>

HasSubscriber_OfAnySubschema(a, subschema) == a.subscribers # {}

\* subschema.subscriber is defined
HasSubscriber(a, subschema) == subschema \in a.subscribers

\* subscribe() of the executor made for a subscription operation and its plan
Subscribe ==
  /\ entryPc = "start"
  /\ LET context == buildExecutionContext(args) IN
     /\ context.operationContext
     /\ context.operation.operation = "subscription"
     /\ getRootType("subscription") # Undefined
     /\ exeContext' = context
     /\ LET map == _splitSelections(getRootType("subscription"),
                                    context.operation.selections, <<>>)
        IN  /\ planMap' = map
            /\ IF Len(map) = 0
               THEN /\ Return(Result(FALSE, NoData,
                                     <<GraphQLError("Could not route subscription.")>>))
                    /\ invocations' = <<>>
               ELSE IF ~HasSubscriber(args, map[1].subschema)
               THEN /\ Return(Result(FALSE, NoData,
                         <<GraphQLError("Subschema is not configured to execute subscription operation.")>>))
                    /\ invocations' = <<>>
               ELSE /\ invocations' = <<Invocation("subscriber", map[1])>>
                    /\ IF map[1].subschema \in args.async
                       THEN Await(<<SubscriberResult(args, map[1])>>)
                       ELSE Return(_handlePossibleStream(SubscriberResult(args, map[1])))
  /\ UNCHANGED << schema, args, runVars, consolidator >>

\* result.then(_handlePossibleStream)
SubscriptionResolved ==
  /\ entryPc = "waiting"
  /\ invocations[1].kind = "subscriber"
  /\ Return(_handlePossibleStream(promised[1]))
  /\ UNCHANGED << schema, args, exeContext, planMap, invocations, runVars,
                  consolidator >>

\* the results of the executors that answered at once, in the order of the
\* plan, and of those that answered with a promise
ResultsOf(a, map, promises) ==
  LET chosen == SelectSeq([i \in 1..Len(map) |-> i],
                          LAMBDA i : (map[i].subschema \in a.async) = promises)
  IN  [j \in 1..Len(chosen) |-> ExecutorResult(a, map[chosen[j]])]

\* execute() of the PlanResult made for the operation and its plan
ExecutePlanResult ==
  /\ entryPc = "start"
  /\ LET context == buildExecutionContext(args) IN
     /\ context.operationContext
     /\ context.operation.operation # "subscription"
     /\ getRootType(context.operation.operation) # Undefined
     /\ exeContext' = context
     /\ LET map == _splitSelections(getRootType(context.operation.operation),
                                    context.operation.selections, <<>>)
            atOnce == ResultsOf(args, map, FALSE)
        IN  /\ planMap' = map
            /\ invocations' = [i \in 1..Len(map) |-> Invocation("executor", map[i])]
            /\ IF \E i \in 1..Len(map) : map[i].subschema \in args.async
               THEN /\ outcome' = NoOutcome
                    /\ promised' = ResultsOf(args, map, TRUE)
                    /\ entryPc' = "waitingPlanResult"
                    /\ planResult' = planResult
               ELSE Return(_return(HandleResults(NewPlanResult, atOnce)))
  /\ UNCHANGED << schema, args, runVars, consolidator >>

\* the last promise resolved: promiseContext.promise.then(() => this._return())
PromiseContextResolved ==
  /\ entryPc = "waitingPlanResult"
  /\ Return(_return(HandleResults(
         HandleResults(NewPlanResult, ResultsOf(args, planMap, FALSE)),
         promised)))
  /\ UNCHANGED << schema, args, exeContext, planMap, invocations, runVars,
                  consolidator >>

NextEntry ==
  \/ Execute
  \/ ResultsResolved
  \/ Subscribe
  \/ SubscriptionResolved
  \/ ExecutePlanResult
  \/ PromiseContextResolved

SpecEntry == InitEntry /\ [][NextEntry]_vars

\* ---- properties of the entry point ----
OperationCount(document) ==
  Cardinality({i \in 1..Len(document) : document[i].kind = "OperationDefinition"})

ErrorsOnly(graphQLErrors) == Result(FALSE, NoData, graphQLErrors)

\* C15: subscribe() on a plan whose first subschema has no subscriber returns
\* exactly one error 'Subschema is not configured to execute subscription
\* operation.' and no data, and invokes no executor and no subscriber of any
\* subschema.
C15_SubscribeWithoutSubscriber ==
  [][(Subscribe /\ Len(planMap') > 0
        /\ planMap'[1].subschema \notin args.subscribers)
     => /\ entryPc' = "done"
        /\ outcome' = ErrorsOnly(<<GraphQLError("Subschema is not configured to execute subscription operation.")>>)
        /\ invocations' = <<>>]_vars

\* subscribe() answered the error although another subschema of the
\* operation has a subscriber
C15_Witness ==
  /\ entryPc = "done"
  /\ exeContext.operation.operation = "subscription"
  /\ Len(planMap) > 0
  /\ planMap[1].subschema \notin args.subscribers
  /\ args.subscribers # {}
  /\ invocations = <<>>
  /\ Len(outcome.errors) = 1 /\ ~outcome.hasData

\* C16: for a document with two or more operation definitions and no
\* operationName, the context is exactly the one error 'Must provide operation
\* name if query contains multiple operations.', which is the response; no
\* variables are coerced, no plan is made and no subschema is called.
C16_MultipleOperationsWithoutName ==
  (entryPc # "start" /\ OperationCount(args.document) >= 2
     /\ args.operationName = NoName)
  => /\ entryPc = "done"
     /\ ~exeContext.operationContext
     /\ exeContext.errors =
          <<GraphQLError("Must provide operation name if query contains multiple operations.")>>
     /\ exeContext.coercions = 0
     /\ outcome = ErrorsOnly(exeContext.errors)
     /\ planMap = <<>>
     /\ invocations = <<>>

\* a document of three operations was run without a name
C16_Witness ==
  /\ entryPc = "done"
  /\ OperationCount(args.document) = 3
  /\ args.operationName = NoName
  /\ Len(outcome.errors) = 1

\* the operation buildExecutionContext selects, when it selects one
SelectedOperation ==
  args.document[SelectOperation(args.document, args.operationName, 1, 0).operation]

HasSelectedOperation ==
  LET selected == SelectOperation(args.document, args.operationName, 1, 0)
  IN  ~selected.multiple /\ selected.operation # 0

\* a required variable is missing or null, or an Int is given a string, or
\* the type of a variable is no input type
CoercionFails(varDefNodes, inputs) ==
  \E i \in 1..Len(varDefNodes) :
    LET v == varDefNodes[i] IN
    \/ v.type \notin InputTypes
    \/ v.name \notin DOMAIN inputs /\ v.defaultValue = Undefined /\ v.nonNull
    \/ v.name \in DOMAIN inputs /\ inputs[v.name] = "null" /\ v.nonNull
    \/ v.name \in DOMAIN inputs /\ inputs[v.name] = "string" /\ v.type = "Int"

\* C17: when variable coercion reports at least one error, the entry point
\* returns exactly the coercion errors as the errors of the response, without
\* data; no plan is made and no executor is invoked.
C17_CoercionErrorsAreTheResponse ==
  (entryPc # "start" /\ HasSelectedOperation
     /\ CoercionFails(SelectedOperation.variableDefinitions, args.variableValues))
  => /\ entryPc = "done"
     /\ getVariableValues(SelectedOperation.variableDefinitions,
                          args.variableValues,
                          [maxErrors |-> MaxCoercionErrors]).hasErrors
     /\ outcome = ErrorsOnly(getVariableValues(SelectedOperation.variableDefinitions,
                                               args.variableValues,
                                               [maxErrors |-> MaxCoercionErrors]).errors)
     /\ Len(outcome.errors) > 0
     /\ planMap = <<>>
     /\ invocations = <<>>

\* two variables of the selected operation failed to coerce
C17_Witness ==
  /\ entryPc = "done"
  /\ HasSelectedOperation
  /\ Len(outcome.errors) = 2
  /\ \A i \in 1..2 : "variable" \in DOMAIN outcome.errors[i]

ExecutorResults ==
  [i \in 1..Len(planMap) |-> ExecutorResult(args, planMap[i])]

RECURSIVE AllErrors(_)
AllErrors(executorResults) ==
  IF Len(executorResults) = 0 THEN <<>>
  ELSE Head(executorResults).errors \o AllErrors(Tail(executorResults))

SameErrors(a, b) ==
  /\ Len(a) = Len(b)
  /\ {a[i] : i \in 1..Len(a)} = {b[i] : i \in 1..Len(b)}

\* data null if some result has data null, else every key of every result
MergedData(executorResults) ==
  IF \E i \in 1..Len(executorResults) : executorResults[i].data.null THEN NoData
  ELSE DataOf(UNION {executorResults[i].data.keys : i \in 1..Len(executorResults)})

\* C23: if at least one subschema answered { initialResult,
\* subsequentResults }, the composed result has that form, its initialResult
\* being the merge of all initial and plain results with hasNext = true and
\* its subsequentResults one stream holding the subsequentResults of every
\* such subschema; otherwise it is a plain response without hasNext.
C23_MultiPartResultsAreConsolidated ==
  (entryPc = "done" /\ Len(invocations) > 0 /\ invocations[1].kind = "executor")
  => /\ outcome.hasData
     /\ outcome.data = MergedData(ExecutorResults)
     /\ SameErrors(outcome.errors, AllErrors(ExecutorResults))
     /\ ~outcome.stream
     /\ IF \E i \in 1..Len(planMap) : ExecutorResults[i].incremental
        THEN /\ outcome.incremental
             /\ outcome.hasNext
             /\ outcome.subsequentResults =
                  {planMap[i].subschema : i \in
                     {j \in 1..Len(planMap) : ExecutorResults[j].incremental}}
        ELSE /\ ~outcome.incremental
             /\ ~outcome.hasNext
             /\ outcome.subsequentResults = {}

\* two subschemas answered with streams, one of them after a promise
C23_Witness ==
  /\ entryPc = "done"
  /\ Len(planMap) = 2
  /\ args.async # {}
  /\ outcome.incremental
  /\ Cardinality(outcome.subsequentResults) = 2

(***************************************************************************)
(* Part 8: the Consolidator                                                *)
(*                                                                         *)
(* The Consolidator is a Repeater whose executor reads every held source   *)
(* in a coroutine of its own (_addAsyncIterator).  The state is a record   *)
(* k: the fields of the object, where the executor and each coroutine are  *)
(* suspended, the pushes the Repeater holds, and what the consumer got.    *)
(* A step is what runs between two suspensions.                            *)
(***************************************************************************)
Sources == {1, 2}

\* the n-th value of source i; n = 0: the payload of its done iteration
Item(i, n) == [source |-> i, n |-> n]
NoValue == Item(0, 0)
NoIteration == [set |-> FALSE, value |-> NoValue]
DoneIteration(i) == [set |-> TRUE, value |-> Item(i, 0)]

\* constructor: the object before the consumer's first pull
NewConsolidator(asyncIterables, lengths, processor) ==
  [ _asyncIterators |-> asyncIterables,
    _started |-> FALSE, _stopped |-> FALSE, _closed |-> FALSE,
    _advances |-> {},
    _finalIteration |-> NoIteration,
    signalled |-> FALSE,            \* _signal is resolved
    executor |-> "notStarted",      \* notStarted, awaitAll, awaitSignal, returned
    awaited |-> {},                 \* the coroutines Promise.all waits for
    coroutine |-> [i \in Sources |-> "none"],
    length |-> lengths,             \* the values each source yields
    read |-> [i \in Sources |-> 0], \* the values each source has yielded
    returnCalls |-> [i \in Sources |-> 0],
    _processor |-> processor,
    stopCalled |-> FALSE,           \* the Repeater was stopped
    returnValue |-> NoIteration,    \* what the executor returned
    pushes |-> <<>>,                \* pushed and not yet taken by the consumer
    emitted |-> <<>>,               \* taken by the consumer, in order
    ended |-> FALSE, endValue |-> NoValue,
    held |-> asyncIterables,        \* every source ever held
    addable |-> Sources \ asyncIterables,
    closedWhen |-> "never",
    addedWaiting |-> {},            \* the sources added while the executor waited
    failing |-> {},                 \* the sources whose read after the last value rejects
    err |-> 0,                      \* the source whose error the Repeater was stopped with
    endError |-> 0,                 \* the error the stream ended with
    failed |-> FALSE,               \* a read has rejected
    heldAtFailure |-> {},           \* _asyncIterators at that moment
    pushedAtFailure |-> 0,          \* how many values had been pushed
    cancelled |-> FALSE,            \* the consumer called return()
    heldAtCancel |-> {},            \* _asyncIterators at that moment
    emittedAtCancel |-> 0 ]         \* how many values it had taken

\* this._trigger(): resolves the current signal
_trigger(k) == [k EXCEPT !.signalled = TRUE]

\* this._processor(value): the identity, or a filter without a value for
\* the first value of a source
Processed(k, value) ==
  IF k._processor = "filter" /\ value.n = 1 THEN NoValue ELSE value

\* the finally block of _addAsyncIterator, up to await asyncIterator.return()
Finally(k, i) ==
  LET deleted == [k EXCEPT !._advances = @ \ {i}, !._asyncIterators = @ \ {i}]
      stopped == IF deleted._closed /\ deleted._asyncIterators = {}
                 THEN [deleted EXCEPT !.stopCalled = TRUE] ELSE deleted
  IN  [stopped EXCEPT !.returnCalls[i] = @ + 1, !.coroutine[i] = "awaitReturn"]

\* the head of the loop of _addAsyncIterator: the next read is asked for and
\* its advance is registered, unless the Consolidator is stopped
ReadNext(k, i) ==
  IF k._stopped THEN Finally(k, i)
  ELSE [k EXCEPT !.coroutine[i] = "awaitNext", !._advances = @ \cup {i}]

_addAsyncIterator(k, i) == ReadNext(k, i)

RECURSIVE AddAsyncIterators(_, _)
AddAsyncIterators(k, iterators) ==
  IF iterators = {} THEN k
  ELSE LET i == CHOOSE i \in iterators : \A j \in iterators : i <= j
       IN  AddAsyncIterators(_addAsyncIterator(k, i), iterators \ {i})

\* an executor that returns as soon as no source is held
ExecutorLoop_EndsWhenExhausted(k) ==
  IF k._asyncIterators # {}
  THEN [AddAsyncIterators(k, k._asyncIterators)
          EXCEPT !.awaited = k._asyncIterators, !.executor = "awaitAll"]
  ELSE [k EXCEPT !.stopCalled = TRUE, !.executor = "returned",
                 !.returnValue = k._finalIteration]

\* the executor from the head of its while (true) loop to its next await
ExecutorLoop(k) ==
  IF k._asyncIterators # {}
  THEN [AddAsyncIterators(k, k._asyncIterators)
          EXCEPT !.awaited = k._asyncIterators, !.executor = "awaitAll"]
  ELSE IF k._closed
  THEN [k EXCEPT !.stopCalled = TRUE, !.executor = "returned",
                 !.returnValue = k._finalIteration]
  ELSE [k EXCEPT !.executor = "awaitSignal"]

\* await this._push(processed): the Repeater holds the pushes in order; a
\* push to a stopped Repeater is dropped and resolves at once
PushProcessed_OnTopUnawaited(k, i, processed) ==
  [k EXCEPT !.pushes = <<processed>> \o @, !.coroutine[i] = "pushed"]

PushProcessed(k, i, processed) ==
  IF k.stopCalled THEN [k EXCEPT !.coroutine[i] = "pushed"]
  ELSE [k EXCEPT !.pushes = Append(@, processed), !.coroutine[i] = "awaitPush"]

\* the advance of source i is called with the iteration its read gave
Advanced(k, i) ==
  IF k.read[i] = k.length[i]
  THEN Finally([k EXCEPT !._finalIteration = DoneIteration(i)], i)
  ELSE LET value == Item(i, k.read[i] + 1)
           taken == [k EXCEPT !.read[i] = @ + 1]
       IN  IF Processed(k, value) = NoValue THEN ReadNext(taken, i)
           ELSE PushProcessed(taken, i, Processed(k, value))

\* stop.then(...): the advances are called without an iteration
RECURSIVE ReleaseAdvances(_, _)
ReleaseAdvances(k, iterators) ==
  IF iterators = {} THEN k
  ELSE LET i == CHOOSE i \in iterators : \A j \in iterators : i <= j
           next == IF k.coroutine[i] \in {"awaitNext", "awaitAdvance"}
                   THEN ReadNext(k, i) ELSE k
       IN  ReleaseAdvances(next, iterators \ {i})

Reading(k) ==
  \E i \in Sources : k.coroutine[i] \in {"awaitNext", "awaitPush", "pushed"}

close_WithoutTrigger(k) ==
  [k EXCEPT !._closed = TRUE,
            !.closedWhen = IF ~k._started THEN "beforeFirstPull"
                           ELSE IF Reading(k) THEN "whileReading"
                           ELSE "afterExhausted"]

\* close(); closedWhen records where the consumer and the sources were
close(k) ==
  LET closed == [k EXCEPT !._closed = TRUE,
                   !.closedWhen = IF ~k._started THEN "beforeFirstPull"
                                  ELSE IF Reading(k) THEN "whileReading"
                                  ELSE "afterExhausted"]
  IN  IF k._started THEN _trigger(closed) ELSE closed

\* add(value)
AddSource(k, i) ==
  LET asked == [k EXCEPT !.addable = @ \ {i}] IN
  IF k._closed THEN asked
  ELSE LET added == [asked EXCEPT !._asyncIterators = @ \cup {i},
                                  !.held = @ \cup {i},
                                  !.addedWaiting =
                                     IF k.executor = "awaitSignal"
                                     THEN @ \cup {i} ELSE @]
       IN  IF k._started THEN _trigger(added) ELSE added

\* ---- state and actions ----
ProcessorChoices == {"identity", "filter"}

InitConsolidator ==
  /\ schema = SchemaSplit
  /\ RunIdle
  /\ EntryIdle
  /\ \E asyncIterables \in {{}, {1}, {1, 2}} :
     \E lengths \in [Sources -> 0..MaxValues] :
     \E processor \in ProcessorChoices :
       consolidator = NewConsolidator(asyncIterables, lengths, processor)

Step(k) ==
  /\ consolidator' = k
  /\ UNCHANGED << schema, runVars, entryVars >>

\* the consumer's first next(): the Repeater runs the executor
FirstPull ==
  /\ ~consolidator._started
  /\ ~consolidator.ended
  /\ Step(ExecutorLoop([consolidator EXCEPT !._started = TRUE]))

\* the consumer's next() takes the oldest push, whose promise resolves
Consume ==
  /\ consolidator._started
  /\ consolidator.pushes # <<>>
  /\ Step([consolidator EXCEPT
             !.emitted = Append(@, Head(consolidator.pushes)),
             !.pushes = Tail(@),
             !.coroutine[Head(consolidator.pushes).source] = "pushed"])

\* the consumer's next() finds the Repeater stopped, the executor returned
\* and no push left: the stream ends with what the executor returned
End ==
  /\ consolidator.executor = "returned"
  /\ consolidator.pushes = <<>>
  /\ ~consolidator.ended
  /\ Step([consolidator EXCEPT !.ended = TRUE,
                               !.endValue = consolidator.returnValue.value,
                               !.endError = consolidator.err])

\* asyncIterator.next() of source i settles
Advance(i) ==
  /\ consolidator.coroutine[i] = "awaitNext"
  /\ ~(i \in consolidator.failing /\ consolidator.read[i] = consolidator.length[i])
  /\ Step(Advanced(consolidator, i))

\* the coroutine of source i goes on after its push
AfterPush(i) ==
  /\ consolidator.coroutine[i] = "pushed"
  /\ Step(ReadNext(consolidator, i))

\* asyncIterator.return() of source i settles: the coroutine is over
ReturnSettled(i) ==
  /\ consolidator.coroutine[i] = "awaitReturn"
  /\ Step([consolidator EXCEPT !.coroutine[i] = "finished", !.awaited = @ \ {i}])

\* Promise.all(promises) resolves
PromiseAllResolved ==
  /\ consolidator.executor = "awaitAll"
  /\ consolidator.awaited = {}
  /\ Step(ExecutorLoop(consolidator))

\* await this._signal resolves; this._signal = this._resetSignal()
SignalResolved ==
  /\ consolidator.executor = "awaitSignal"
  /\ consolidator.signalled
  /\ Step(ExecutorLoop([consolidator EXCEPT !.signalled = FALSE]))

\* stop.then(...)
StopObserved ==
  /\ consolidator._started
  /\ consolidator.stopCalled
  /\ ~consolidator._stopped
  /\ Step(ReleaseAdvances([consolidator EXCEPT !._stopped = TRUE],
                          consolidator._advances))

Close ==
  /\ ~consolidator._closed
  /\ Step(close(consolidator))

Add(i) ==
  /\ i \in consolidator.addable
  /\ Step(AddSource(consolidator, i))

NextConsolidator ==
  \/ FirstPull
  \/ Consume
  \/ End
  \/ \E i \in Sources : Advance(i)
  \/ \E i \in Sources : AfterPush(i)
  \/ \E i \in Sources : ReturnSettled(i)
  \/ PromiseAllResolved
  \/ SignalResolved
  \/ StopObserved
  \/ Close
  \/ \E i \in Sources : Add(i)

SpecConsolidator == InitConsolidator /\ [][NextConsolidator]_vars

\* the consumer keeps pulling, promise reactions run, and a source answers
\* every read; close() and add() are up to the caller
SpecConsolidatorFair ==
  /\ SpecConsolidator
  /\ WF_vars(FirstPull) /\ WF_vars(Consume) /\ WF_vars(End)
  /\ \A i \in Sources :
       WF_vars(Advance(i)) /\ WF_vars(AfterPush(i)) /\ WF_vars(ReturnSettled(i))
  /\ WF_vars(PromiseAllResolved) /\ WF_vars(SignalResolved) /\ WF_vars(StopObserved)

\* ---- the consumer cancels ----
\* return() of the Repeater: it is stopped and finished at once, the pushes
\* not yet taken are dropped and their promises resolve, and the stream has
\* ended for the consumer. A Repeater that was never pulled never runs its
\* executor.
RepeaterReturn(k) ==
  [k EXCEPT !.stopCalled = TRUE,
            !.pushes = <<>>,
            !.coroutine = [i \in Sources |->
                             IF @[i] = "awaitPush" THEN "pushed" ELSE @[i]],
            !.ended = TRUE, !.endValue = NoValue,
            !.cancelled = TRUE,
            !.heldAtCancel = k._asyncIterators,
            !.emittedAtCancel = Len(k.emitted)]

Cancel ==
  /\ ~consolidator.ended
  /\ Step(RepeaterReturn(consolidator))

NextCancel == NextConsolidator \/ Cancel

SpecCancel == InitConsolidator /\ [][NextCancel]_vars

\* as SpecConsolidatorFair; return() is up to the consumer
SpecCancelFair ==
  /\ SpecCancel
  /\ WF_vars(FirstPull) /\ WF_vars(Consume) /\ WF_vars(End)
  /\ \A i \in Sources :
       WF_vars(Advance(i)) /\ WF_vars(AfterPush(i)) /\ WF_vars(ReturnSettled(i))
  /\ WF_vars(PromiseAllResolved) /\ WF_vars(SignalResolved) /\ WF_vars(StopObserved)

\* ---- properties of the Consolidator ----
\* what was pushed to the consumer, in the order of the pushes
Pushed == consolidator.emitted \o consolidator.pushes

\* C19: the values of each source reach the consumer in the order the source
\* produced them: of two values of one source, the earlier is pushed first,
\* however the sources interleave.
C19_PerSourceOrderPreserved ==
  \A a, b \in 1..Len(Pushed) :
    (a < b /\ Pushed[a].source = Pushed[b].source) => Pushed[a].n < Pushed[b].n

\* the consumer got the values of two sources, interleaved
C19_Witness ==
  /\ Len(consolidator.emitted) = 4
  /\ consolidator.emitted[1].source = 1
  /\ consolidator.emitted[2].source = 2
  /\ consolidator.emitted[3].source = 1
  /\ consolidator.emitted[4].source = 2

\* close() was called and every source ever held has reported done
ClosedAndExhausted ==
  /\ consolidator._closed
  /\ \A i \in consolidator.held :
       consolidator.coroutine[i] \in {"awaitReturn", "finished"}

\* the payload of the last done iteration
LastDonePayload == consolidator._finalIteration.value

\* C20: once close() has been called and every held source has reported done,
\* the output stream eventually ends for a consumer that keeps pulling, with
\* the payload of the last done iteration, wherever close() was called.
C20_ClosedAndExhaustedEnds ==
  ClosedAndExhausted ~>
    (consolidator.ended /\ consolidator.endValue = LastDonePayload)

\* the stream ended with the payload of a source after close() was called
\* while sources were being read
C20_Witness ==
  /\ consolidator.ended
  /\ consolidator.closedWhen = "whileReading"
  /\ consolidator.endValue # NoValue
  /\ Len(consolidator.emitted) > 0

\* C21: every value of a held source, given at construction or added before
\* close(), reaches a consumer that keeps pulling, and a source added while
\* other sources are being read is read without waiting for them: once the
\* consumer has pulled, a held source whose coroutine has not begun is never
\* kept waiting while another source is being read.
C21_AddedSourceReadWithoutWaiting ==
  \A i \in Sources :
    (consolidator._started /\ i \in consolidator._asyncIterators
       /\ consolidator.coroutine[i] = "none")
    => ~Reading(consolidator)

\* the sources held at the cancellation have each been returned exactly
\* once and none of their reads is pending
Released ==
  /\ \A i \in consolidator.heldAtCancel : consolidator.returnCalls[i] = 1
  /\ consolidator._advances \cap consolidator.heldAtCancel = {}

\* C22: when the consumer cancels the stream, every source held at that
\* moment has its return hook called, and never more than once, every
\* pending read is released, and the consumer is handed no value after the
\* cancellation.
C22_CancelReturnsEverySource ==
  /\ consolidator.cancelled ~> Released
  /\ [](\A i \in Sources : consolidator.returnCalls[i] <= 1)
  /\ [](consolidator.cancelled
          => /\ consolidator.pushes = <<>>
             /\ Len(consolidator.emitted) = consolidator.emittedAtCancel)

(***************************************************************************)
(* Part 9: the construction of the SuperSchema                             *)
(*                                                                         *)
(* _createMergedElements walks the type map of every subschema and fills   *)
(* subschemaSetsByTypeAndField, then merges the root types and the types.  *)
(* A subschema may give its query root type a name of its own.             *)
(***************************************************************************)
EmptyMap == [k \in {} |-> <<>>]

QueryRootNames == {"Query", "RootQuery"}

\* schema.getTypeMap() of a subschema: the types it defines, its query root
\* type under the name the subschema gives it
TypeMapOf(input, rootNames, s) ==
  LET names == ({t \in DOMAIN input[s] : input[s][t] # {}} \ {"Query"})
                 \cup (IF input[s]["Query"] # {} THEN {rootNames[s]} ELSE {})
  IN  [n \in names |-> IF n = rootNames[s] THEN input[s]["Query"] ELSE input[s][n]]

\* schema.getRootType(operation) of a subschema: the name, or Undefined
RootTypeOf(typeMap, rootNames, s, kind) ==
  LET name == IF kind = "query" THEN rootNames[s] ELSE "Subscription"
  IN  IF kind \in {"query", "subscription"} /\ name \in DOMAIN typeMap
      THEN name ELSE Undefined

TypeOrder ==
  <<"Query", "RootQuery", "User", "Profile", "Item", "Node", "Ghost", "Subscription">>

\* the iterations of the loops of _createMergedElements over one subschema
StepsOf(typeMap, s) ==
  <<[subschema |-> s, step |-> "rootTypes", name |-> ""]>>
  \o [i \in 1..Len(SelectSeq(TypeOrder, LAMBDA t : t \in DOMAIN typeMap)) |->
        [subschema |-> s, step |-> "type",
         name |-> SelectSeq(TypeOrder, LAMBDA t : t \in DOMAIN typeMap)[i]]]

\* constructor, before _createMergedElements
NewSuperSchema(input, rootNames) ==
  LET typeMaps == [s \in {"A", "B", "C"} |-> TypeMapOf(input, rootNames, s)] IN
  [ typeMaps |-> typeMaps,
    rootNames |-> rootNames,
    todo |-> StepsOf(typeMaps["A"], "A") \o StepsOf(typeMaps["B"], "B")
               \o StepsOf(typeMaps["C"], "C"),
    subschemaSetsByTypeAndField |-> EmptyMap,
    originalRootTypes |-> [kind \in {"query", "subscription"} |-> <<>>],
    originalTypes |-> EmptyMap,
    mergedRootTypes |-> EmptyMap,
    mergedTypes |-> EmptyMap,
    built |-> FALSE ]

\* _addToSubschemaSets(subschema, name, type): the sets are kept under the
\* name the type has in the subschema
_addToSubschemaSets(sets, subschema, name, fields) ==
  LET before == IF name \in DOMAIN sets THEN sets[name] ELSE EmptyMap
      added == fields \cup {TypeNameMetaFieldDef}
  IN  (name :>
         [f \in DOMAIN before \cup added |->
            LET old == IF f \in DOMAIN before THEN before[f] ELSE <<>>
            IN  IF f \in added /\ ~Has(old, subschema) THEN Append(old, subschema)
                ELSE old])
      @@ sets

\* the fields of the merged type of some types: _getMergedFieldMap
MergedFieldsOf(k, originals) ==
  UNION {k.typeMaps[originals[i].subschema][originals[i].name] : i \in 1..Len(originals)}

\* _mergeObjectTypes: the name of the first type, the fields of all
_mergeObjectTypes(k, originals) ==
  [name |-> originals[1].name, fields |-> MergedFieldsOf(k, originals)]

\* the loops at the end of _createMergedElements
MergedElements(k) ==
  LET kinds == {kind \in {"query", "subscription"} : Len(k.originalRootTypes[kind]) > 0}
      roots == [kind \in kinds |-> _mergeObjectTypes(k, k.originalRootTypes[kind])]
  IN  [k EXCEPT
         !.mergedRootTypes = roots,
         !.mergedTypes =
            [typeName \in DOMAIN k.originalTypes |->
               IF \E kind \in kinds : roots[kind].name = typeName
               THEN roots[CHOOSE kind \in kinds : roots[kind].name = typeName]
               ELSE _mergeObjectTypes(k, k.originalTypes[typeName])],
         !.built = TRUE]

InitSuperSchema ==
  /\ schema \in SchemaChoices
  /\ \E rootNames \in [{"A", "B", "C"} -> QueryRootNames] :
       superSchema = NewSuperSchema(schema, rootNames)
  /\ coercion = <<>>
  /\ original = <<>>
  /\ operation = <<>>
  /\ planFieldNodes = <<>>
  /\ fieldPlan = EmptyFieldPlan
  /\ asyncSubschemas = {}
  /\ results = NoResults
  /\ heap = <<>>
  /\ errors = <<>>
  /\ nulled = FALSE
  /\ promiseCount = 0
  /\ pending = <<>>
  /\ calls = <<>>
  /\ thrown = FALSE
  /\ log = <<>>
  /\ response = NoResponse
  /\ pc = "idle"
  /\ EntryIdle
  /\ ConsolidatorIdle

StepSuperSchema(k) ==
  /\ superSchema' = k
  /\ UNCHANGED << coercion, schema, original, operation, planFieldNodes, fieldPlan, results,
                  asyncSubschemas, composerVars, response, pc, entryVars,
                  consolidator >>

\* the loop over the operations, for one subschema
CollectRootTypes ==
  /\ Len(superSchema.todo) > 0
  /\ Head(superSchema.todo).step = "rootTypes"
  /\ LET s == Head(superSchema.todo).subschema
         found == [kind \in {"query", "subscription"} |->
                     RootTypeOf(superSchema.typeMaps[s], superSchema.rootNames, s, kind)]
     IN  StepSuperSchema([superSchema EXCEPT
           !.todo = Tail(@),
           !.originalRootTypes =
              [kind \in {"query", "subscription"} |->
                 IF found[kind] = Undefined THEN @[kind]
                 ELSE Append(@[kind], [subschema |-> s, name |-> found[kind]])]])

\* one iteration of the loop over the type map of a subschema
CollectType ==
  /\ Len(superSchema.todo) > 0
  /\ Head(superSchema.todo).step = "type"
  /\ LET s == Head(superSchema.todo).subschema
         name == Head(superSchema.todo).name
         entry == [subschema |-> s, name |-> name]
     IN  StepSuperSchema([superSchema EXCEPT
           !.todo = Tail(@),
           !.originalTypes =
              (name :> (IF name \in DOMAIN @ THEN Append(@[name], entry)
                        ELSE <<entry>>)) @@ @,
           !.subschemaSetsByTypeAndField =
              _addToSubschemaSets(@, s, name, superSchema.typeMaps[s][name])])

\* the subschemas are walked: the root types and the types are merged
MergeElements ==
  /\ Len(superSchema.todo) = 0
  /\ ~superSchema.built
  /\ StepSuperSchema(MergedElements(superSchema))

NextSuperSchema == CollectRootTypes \/ CollectType \/ MergeElements

SpecSuperSchema == InitSuperSchema /\ [][NextSuperSchema]_vars

\* the composite types of the merged schema
MergedCompositeTypes ==
  {superSchema.mergedTypes[n] : n \in DOMAIN superSchema.mergedTypes}
  \cup {superSchema.mergedRootTypes[kind] : kind \in DOMAIN superSchema.mergedRootTypes}

\* the fields subschema s defines on the type it merges into type
FieldsDefinedBy(s, type) ==
  LET typeMap == superSchema.typeMaps[s]
      own == IF type.name \in DOMAIN typeMap THEN typeMap[type.name] ELSE {}
      asRoot == UNION { typeMap[RootTypeOf(typeMap, superSchema.rootNames, s, kind)] :
                          kind \in {k \in DOMAIN superSchema.mergedRootTypes :
                                      /\ superSchema.mergedRootTypes[k] = type
                                      /\ RootTypeOf(typeMap, superSchema.rootNames, s, k)
                                           # Undefined} }
  IN  own \cup asRoot

\* C26: after the construction, for every composite type of the merged
\* schema, looked up by its merged name, and every field of it, and for
\* __typename, subschemaSetsByTypeAndField has a non-empty set of subschemas,
\* each of which defines that field on that type; also for a merged root type
\* whose subschema root types carry different names.
C26_SubschemaSetsCoverMergedFields ==
  superSchema # <<>> /\ superSchema.built =>
    \A type \in MergedCompositeTypes :
      /\ type.name \in DOMAIN superSchema.subschemaSetsByTypeAndField
      /\ \A f \in type.fields \cup {TypeNameMetaFieldDef} :
           LET byField == superSchema.subschemaSetsByTypeAndField[type.name] IN
           /\ f \in DOMAIN byField
           /\ Len(byField[f]) > 0
           /\ \A i \in 1..Len(byField[f]) :
                \/ f = TypeNameMetaFieldDef /\ FieldsDefinedBy(byField[f][i], type) # {}
                \/ f \in FieldsDefinedBy(byField[f][i], type)
(***************************************************************************)
(* Part 10: SuperSchema.getVariableValues with an error limit              *)
(*                                                                         *)
(* coercion is one call of getVariableValues: the variable definitions,    *)
(* the inputs and the options it was given, and what it returned.          *)
(***************************************************************************)
VarL == VariableDefinition("l", "[Int]", FALSE, Undefined)

CoercionVarDefs == {VarN, VarD, VarU, VarL}

VarDefSequences ==
  UNION { { q \in [1..n -> CoercionVarDefs] :
              \A i, j \in 1..n : i # j => q[i].name # q[j].name } :
          n \in 0..MaxVarDefs }

CoercionInputChoices ==
  VariableValueChoices
    \cup { "l" :> "strings",
           ("n" :> "null") @@ ("l" :> "strings"),
           ("n" :> "int") @@ ("l" :> "string") @@ ("u" :> "int"),
           ("d" :> "strings") @@ ("l" :> "int") }

NoOptions == [n \in {} |-> 0]

OptionChoices == {NoOptions} \cup {[maxErrors |-> n] : n \in 0..MaxErrorLimit}

NoCoercionResult == [hasErrors |-> FALSE, errors |-> <<>>, coerced |-> NoInputs]

InitCoercion ==
  /\ schema = SchemaSplit
  /\ coercion \in [ varDefNodes : VarDefSequences, inputs : CoercionInputChoices,
                    options : OptionChoices, result : {NoCoercionResult},
                    pc : {"called"} ]
  /\ superSchema = <<>>
  /\ original = <<>>
  /\ operation = <<>>
  /\ planFieldNodes = <<>>
  /\ fieldPlan = EmptyFieldPlan
  /\ asyncSubschemas = {}
  /\ results = NoResults
  /\ heap = <<>>
  /\ errors = <<>>
  /\ nulled = FALSE
  /\ promiseCount = 0
  /\ pending = <<>>
  /\ calls = <<>>
  /\ thrown = FALSE
  /\ log = <<>>
  /\ response = NoResponse
  /\ pc = "idle"
  /\ EntryIdle
  /\ ConsolidatorIdle

GetVariableValues ==
  /\ coercion # <<>>
  /\ coercion.pc = "called"
  /\ coercion' = [coercion EXCEPT
       !.result = getVariableValues(coercion.varDefNodes, coercion.inputs,
                                    coercion.options),
       !.pc = "returned"]
  /\ UNCHANGED << schema, superSchema, original, operation, planFieldNodes,
                  fieldPlan, results, asyncSubschemas, composerVars, response,
                  pc, entryVars, consolidator >>

NextCoercion == GetVariableValues

SpecCoercion == InitCoercion /\ [][NextCoercion]_vars

\* ---- reading a call ----
TooManyErrors ==
  GraphQLError("Too many errors processing variables, error limit reached. Execution aborted.")

\* the errors of every variable coerced on its own, without a limit, in the
\* order of the definitions
RECURSIVE ErrorsOfEach(_, _)
ErrorsOfEach(varDefNodes, inputs) ==
  IF Len(varDefNodes) = 0 THEN <<>>
  ELSE getVariableValues(<<Head(varDefNodes)>>, inputs, NoOptions).errors
         \o ErrorsOfEach(Tail(varDefNodes), inputs)

Returned == coercion # <<>> /\ coercion.pc = "returned"

Limited == "maxErrors" \in DOMAIN coercion.options

SchemaShared ==
  [ A |-> [ Query   |-> {"a", "items", "node", "nodes", "ghost"},
            User    |-> {"id", "name", "profile"},
            Profile |-> {"bio", "site"},
            Item    |-> {"id", "sku"},
            Node    |-> {"id"},
            Ghost   |-> {"id"} ],
    B |-> [ Query   |-> {"b", "user"},
            User    |-> {"id", "email", "friend", "profile"},
            Profile |-> {"bio"},
            Item    |-> {"id", "price"},
            Node    |-> {},
            Ghost   |-> {"tag"} ],
    C |-> [ Query   |-> {},
            User    |-> {"phone"},
            Profile |-> {},
            Item    |-> {},
            Node    |-> {},
            Ghost   |-> {} ] ]

InitPlannerShared ==
  /\ superSchema = <<>>
  /\ coercion = <<>>
  /\ schema \in SchemaChoices \cup {SchemaShared}
  /\ original = AnonymousQuery
  /\ operation \in PlannerOperations
  /\ planFieldNodes = _collectSubFields("Query", operation)
  /\ fieldPlan = EmptyFieldPlan
  /\ asyncSubschemas = {}
  /\ results = NoResults
  /\ heap = <<NewObject("obj")>>
  /\ errors = <<>>
  /\ nulled = FALSE
  /\ promiseCount = 0
  /\ pending = <<>>
  /\ calls = <<>>
  /\ thrown = FALSE
  /\ log = <<>>
  /\ response = NoResponse
  /\ pc = "planning"
  /\ EntryIdle
  /\ ConsolidatorIdle

SpecPlannerShared == InitPlannerShared /\ [][NextPlanner]_vars

\* the rule: fromSubschema when it is a candidate, else a candidate that has
\* a SubschemaPlan, else the first candidate
FollowsPreference(chosen, subschemaSet, subschemaPlans, fromSubschema) ==
  IF Has(subschemaSet, fromSubschema)
  THEN chosen = fromSubschema
  ELSE IF FirstWithPlan(subschemaSet, subschemaPlans) # 0
       THEN Has(subschemaSet, chosen) /\ PlanIndex(subschemaPlans, chosen) # 0
       ELSE chosen = subschemaSet[1]

\* in a field plan made for fromSubschema, every field that fromSubschema
\* defines is in the plan of fromSubschema, at every depth of stitch plans
RECURSIVE FromSubschemaPreferred(_, _, _)
StitchPlansPreferFrom(stitchPlans, fromSubschema) ==
  \A i \in 1..Len(stitchPlans) :
    \A j \in 1..Len(stitchPlans[i].value) :
      FromSubschemaPreferred(stitchPlans[i].value[j].fieldPlan, fromSubschema,
                             stitchPlans[i].value[j].type)

FromSubschemaPreferred(plan, fromSubschema, parentType) ==
  /\ \A i \in 1..Len(plan.subschemaPlans) :
       LET subschemaPlan == plan.subschemaPlans[i] IN
       /\ \A n \in 1..Len(subschemaPlan.fieldNodes) :
            Has(subschemaSetsByTypeAndField(parentType, subschemaPlan.fieldNodes[n].name),
                fromSubschema)
              => subschemaPlan.toSubschema = fromSubschema
       /\ StitchPlansPreferFrom(subschemaPlan.stitchPlans, subschemaPlan.toSubschema)
  /\ StitchPlansPreferFrom(plan.stitchPlans, fromSubschema)

\* C29: the subschema chosen for a field is fromSubschema when fromSubschema
\* is among the candidates of the field, else a candidate that has a
\* SubschemaPlan in the plan under construction, else the first candidate,
\* for a field without and for a field with a selection set: the choice made
\* for the next root field follows the rule, and in every supplemental field
\* plan the fields its fromSubschema defines are planned for fromSubschema.
C29_SubschemaChosenByPreference ==
  /\ FromSubschemaPreferred(fieldPlan, Undefined, "Query")
  /\ (pc = "planning" /\ Len(planFieldNodes) > 0)
     => LET subschemaSet ==
              subschemaSetsByTypeAndField("Query", Head(planFieldNodes).name)
        IN  Len(subschemaSet) > 0 =>
              /\ FollowsPreference(
                   _getSubschemaAndPlan(subschemaSet, fieldPlan.subschemaPlans,
                                        Undefined).subschema,
                   subschemaSet, fieldPlan.subschemaPlans, Undefined)
              /\ FollowsPreference(
                   _getSubschema(subschemaSet, fieldPlan.subschemaPlans),
                   subschemaSet, fieldPlan.subschemaPlans, Undefined)
(***************************************************************************)
(* Part 12: two results with one response key                              *)
(*                                                                         *)
(* Operations in which two root field nodes share the response key user;   *)
(* with SchemaOverlap the planner gives them to two subschemas.            *)
(***************************************************************************)
SharedKeyOperations ==
  { <<Leaf("b"), Comp("user", <<Leaf("id"), Leaf("phone")>>),
      Comp("items", <<Leaf("sku")>>), Comp("user", <<Leaf("name")>>)>>,
    <<Leaf("b"), Comp("user", <<Leaf("id")>>),
      Comp("items", <<Leaf("sku")>>), Comp("user", <<Leaf("name"), Leaf("phone")>>)>>,
    <<Comp("user", <<Leaf("name"), Leaf("email"), Leaf("phone")>>)>> }

InitSharedKey ==
  /\ superSchema = <<>>
  /\ coercion = <<>>
  /\ schema = SchemaOverlap
  /\ original = AnonymousQuery
  /\ operation \in SharedKeyOperations
  /\ planFieldNodes = <<>>
  /\ fieldPlan = createRootFieldPlan(operation)
  /\ asyncSubschemas \in AsyncChoices
  /\ results \in ResultChoices(fieldPlan, asyncSubschemas)
  /\ heap = <<NewObject("obj")>>
  /\ errors = <<>>
  /\ nulled = FALSE
  /\ promiseCount = 0
  /\ pending = <<>>
  /\ calls = <<>>
  /\ thrown = FALSE
  /\ log = <<>>
  /\ response = NoResponse
  /\ pc = "start"
  /\ EntryIdle
  /\ ConsolidatorIdle

SpecSharedKey == InitSharedKey /\ [][Next]_vars

\* the object reached from object id along path; 0 when there is none
RECURSIVE ObjectAt(_, _, _)
ObjectAt(h, id, path) ==
  IF Len(path) = 0 THEN id
  ELSE IF IsDefined(h, id, Head(path)) /\ h[id].f[Head(path)].t = "ref"
       THEN ObjectAt(h, h[id].f[Head(path)].r, Tail(path))
       ELSE 0

\* the result of a follow-up that was merged into its target
MergedFollowUp(i) ==
  /\ log[i].path # <<>>
  /\ ~log[i].failed
  /\ ~log[i].discarded

\* the slot of a follow-up is null, for the handlers or in the response
SlotNulled(i) ==
  \/ IsNull(heap, log[i].parent, log[i].parentKey)
  \/ \E n \in 1..Len(log[i].path) :
       ValueAt(Deref(heap, Ref(FieldsId)), SubSeq(log[i].path, 1, n)).t = "null"

\* C30: when a run has ended, the target of every follow-up whose result was
\* merged is the object found in the response at the path of the follow-up,
\* and that object holds every key of the result, unless the slot was
\* nulled; also when two results hold the same response key.
C30_FollowUpTargetsAreInTheResponse ==
  (pc = "done" /\ pending = <<>> /\ ~nulled)
  => \A i \in 1..Len(log) :
       (MergedFollowUp(i) /\ ~SlotNulled(i))
       => /\ log[i].target = ObjectAt(heap, FieldsId, log[i].path)
          /\ DOMAIN heap[log[i].data].f \subseteq DOMAIN heap[log[i].target].f
(***************************************************************************)
(* Part 13: properties of the stitch walk                                  *)
(***************************************************************************)
\* the follow-up fetches the stitch trees ask for over the data as it is now:
\* one for every object under a stitch key, or element of a list under it,
\* and every SubschemaPlan of the field plan of the object's type
RECURSIVE ExpectedInTrees(_, _, _, _)
RECURSIVE ExpectedAt(_, _, _, _)

ExpectedInTrees(h, obj, stitchTrees, path) ==
  UNION { IF IsDefined(h, obj, stitchTrees[n].key)
          THEN ExpectedAt(h, h[obj].f[stitchTrees[n].key], stitchTrees[n].value,
                          Append(path, stitchTrees[n].key))
          ELSE {} : n \in 1..Len(stitchTrees) }

ExpectedAt(h, value, stitchTree, path) ==
  IF value.t # "ref" THEN {}
  ELSE IF h[value.r].kind = "list"
  THEN UNION { ExpectedAt(h, h[value.r].f[k], stitchTree, Append(path, k)) :
               k \in DOMAIN h[value.r].f }
  ELSE IF ~IsDefined(h, value.r, StitchingTypename) \/ IsNull(h, value.r, StitchingTypename)
  THEN {}
  ELSE LET idx == StitchTreeIndex(stitchTree, h[value.r].f[StitchingTypename].s) IN
       IF idx = 0 THEN {}
       ELSE LET plan == stitchTree[idx].fieldPlan IN
            { [ path |-> path, subschema |-> plan.subschemaPlans[i].toSubschema,
                fieldNodes |-> plan.subschemaPlans[i].fieldNodes ] :
              i \in 1..Len(plan.subschemaPlans) }
            \cup ExpectedInTrees(h, value.r, plan.stitchPlans, path)

\* the result of log entry k was merged
Merged(k) == ~log[k].failed /\ ~log[k].discarded

FollowUps == {j \in 1..Len(calls) : ~calls[j].top}

\* every component of path is a key as one goes down from obj; a slot that is
\* null by now ends the descent
RECURSIVE DefinedAlong(_, _, _)
DefinedAlong(h, obj, path) ==
  IF Len(path) = 0 THEN TRUE
  ELSE /\ IsDefined(h, obj, Head(path))
       /\ h[obj].f[Head(path)].t = "ref"
            => DefinedAlong(h, h[obj].f[Head(path)].r, Tail(path))

IsProperPrefix(p, q) == Len(p) < Len(q) /\ SubSeq(q, 1, Len(p)) = p

\* C31: as long as no handler has failed, every object found under a stitch
\* key of a merged result has exactly one follow-up call for each
\* SubschemaPlan of the field plan of its type, at the path of the object;
\* no two follow-up calls have the same path and subschema; and every
\* follow-up call is for a path whose keys are present in a merged result.
C31_OneFollowUpPerObjectAndPlan ==
  ~thrown =>
    /\ \A k \in 1..Len(log) :
         Merged(k) =>
           \A e \in ExpectedInTrees(heap, log[k].data, log[k].stitchTrees, log[k].path) :
             Cardinality({ j \in FollowUps :
                             /\ calls[j].path = e.path
                             /\ calls[j].subschema = e.subschema
                             /\ calls[j].fieldNodes = e.fieldNodes }) = 1
    /\ \A i, j \in FollowUps :
         (calls[i].path = calls[j].path /\ calls[i].subschema = calls[j].subschema)
           => i = j
    /\ \A j \in FollowUps :
         \E k \in 1..Len(log) :
           /\ Merged(k)
           /\ IsProperPrefix(log[k].path, calls[j].path)
           /\ DefinedAlong(heap, log[k].data,
                           SubSeq(calls[j].path, Len(log[k].path) + 1, Len(calls[j].path)))

\* a run that ended after two follow-ups at one path, for two subschemas
C31_Witness ==
  /\ pc = "done"
  /\ ~thrown
  /\ \E i, j \in FollowUps :
       /\ calls[i].path = calls[j].path
       /\ calls[i].subschema # calls[j].subschema
\* ---- the end of a run ----
\* every executor promise settles: a pending promise is not left pending for
\* ever, and the continuation of compose() runs once the aggregator is empty
Settles == \E i \in 1..Len(pending) : Fulfil(i) \/ Reject(i)

\* before an operation is received
NoComposer ==
  /\ schema = SchemaSplit
  /\ RunIdle
  /\ EntryIdle
  /\ ConsolidatorIdle

\* an operation arrives, for one of the super-schemas
ReceiveOperation ==
  /\ pc = "idle"
  /\ schema' \in SchemaChoices
  /\ original' \in OriginalChoices
  /\ operation' \in ComposerOperations
  /\ asyncSubschemas' \in AsyncChoices
  /\ pc' = "received"
  /\ UNCHANGED << coercion, superSchema, consolidator, entryVars, planFieldNodes,
                  fieldPlan, results, composerVars, response >>

\* the plan is made and the Composer constructed; the subschemas will answer
\* in one of the ways of ResultChoices
ConstructComposer ==
  /\ pc = "received"
  /\ fieldPlan' = createRootFieldPlan(operation)
  /\ results' \in ResultChoices(createRootFieldPlan(operation), asyncSubschemas)
  /\ heap' = <<NewObject("obj")>>
  /\ pc' = "start"
  /\ UNCHANGED << coercion, superSchema, consolidator, entryVars, schema, original,
                  operation, planFieldNodes, asyncSubschemas, errors, nulled,
                  promiseCount, pending, calls, thrown, log, response >>

NextRun == ReceiveOperation \/ ConstructComposer \/ Next

SpecRun == NoComposer /\ [][NextRun]_vars

\* compose() runs its loop once called; a pending promise can settle
CanCompose == pc = "start"
CanSettle == pc \in {"waiting", "done"} /\ Len(pending) > 0

\* weak fairness of Compose, of Settles and of BuildResponse; for the first
\* two WF_vars(A) is written out as []<>~ENABLED <<A>>_vars \/ []<><<A>>_vars
\* with the guard of the action in the place of ENABLED
SpecFair ==
  /\ SpecRun
  /\ ([]<>(~CanCompose) \/ []<><<Compose>>_vars)
  /\ ([]<>(~CanSettle) \/ []<><<Settles>>_vars)
  /\ WF_vars(BuildResponse)

\* the depth of stitch trees: the longest chain of follow-ups they can ask for
RECURSIVE TreeDepth(_)
RECURSIVE PlanDepth(_)
Max(S) == IF S = {} THEN 0 ELSE CHOOSE x \in S : \A y \in S : y <= x

TreeDepth(stitchTrees) ==
  Max(UNION { { PlanDepth(stitchTrees[n].value[t].fieldPlan) :
                  t \in 1..Len(stitchTrees[n].value) } :
              n \in 1..Len(stitchTrees) })

PlanDepth(plan) ==
  Max({ 1 + TreeDepth(plan.subschemaPlans[i].stitchPlans) :
          i \in 1..Len(plan.subschemaPlans) }
      \cup {TreeDepth(plan.stitchPlans)})

\* C32: when every executor promise settles, compose() returns, unless a
\* handler fails: the run started ends with a response, and then no promise
\* is counted by the aggregator; every follow-up result carries stitch trees
\* less deep than those of a result it was found in, so the chain of
\* follow-ups is no longer than the plan is deep.
C32_ComposeEventuallyReturns ==
  /\ (pc = "start") ~> (pc = "done" \/ thrown)
  /\ []((pc = "done" /\ ~thrown) => (promiseCount = 0 /\ response # NoResponse))
  /\ [](\A j \in 1..Len(log) :
          log[j].path # <<>> =>
            \E k \in 1..Len(log) :
              /\ IsProperPrefix(log[k].path, log[j].path)
              /\ TreeDepth(log[j].stitchTrees) < TreeDepth(log[k].stitchTrees))
  /\ [](\A k \in 1..Len(log) :
          TreeDepth(log[k].stitchTrees) <= PlanDepth(fieldPlan) - 1)

\* a run with a follow-up of a follow-up, answered by promises, has ended
C32_Witness ==
  /\ pc = "done" /\ ~thrown /\ response # NoResponse
  /\ PlanDepth(fieldPlan) >= 2
  /\ \E j \in 1..Len(log) :
       log[j].path # <<>> /\ log[j].subschema \in asyncSubschemas
\* ---- the Consolidator while it is open ----
\* every value of source i that the processor lets through was handed to
\* the consumer
Delivered(i) ==
  \A n \in 1..consolidator.length[i] :
    Processed(consolidator, Item(i, n)) # NoValue
      => \E a \in 1..Len(consolidator.emitted) :
           consolidator.emitted[a] = Item(i, n)

\* every source held so far has reported done and the executor waits
Exhausted ==
  /\ consolidator._started
  /\ consolidator._asyncIterators = {}
  /\ \A i \in consolidator.held : consolidator.coroutine[i] = "finished"

\* C33: while close() has not been called the Consolidator does not end its
\* output stream, not even when every held source is exhausted: the
\* executor has not returned and the Repeater is not stopped, with nothing
\* left to read the executor waits for the signal, and a source added while
\* it waits is read to its end and its values reach a consumer that keeps
\* pulling.
C33_OpenConsolidatorWaits ==
  /\ [](~consolidator._closed
          => /\ ~consolidator.ended
             /\ consolidator.executor # "returned"
             /\ ~consolidator.stopCalled)
  /\ []((~consolidator._closed /\ Exhausted /\ consolidator.executor # "awaitAll")
          => consolidator.executor = "awaitSignal")
  /\ \A i \in Sources :
       (i \in consolidator.addedWaiting)
         ~> (consolidator.read[i] = consolidator.length[i] /\ Delivered(i))

\* with source 1 exhausted and close() not called, source 2 was added while
\* the executor waited, and the consumer has its values
C33_Witness ==
  /\ ~consolidator._closed
  /\ ~consolidator.ended
  /\ consolidator.coroutine[1] = "finished"
  /\ 2 \in consolidator.addedWaiting
  /\ consolidator.length[2] = 2
  /\ consolidator.read[2] = 2
  /\ Delivered(2)
\* ---- the leaf fields of an operation and of its plan ----
\* the object types a value of the named type can have at run time
RuntimeTypesOf(typeName) ==
  IF isAbstractType(typeName) THEN getPossibleTypes(typeName) ELSE <<typeName>>

\* the leaf fields asked of an object of the given type by the field nodes,
\* each with the path of response keys to it and the type of its object;
\* below a field of abstract type, once for each possible type. Fields no
\* subschema defines and the added __stitching__typename are left out.
RECURSIVE RuntimeLeaves(_, _, _)
RECURSIVE RuntimeLeavesOver(_, _, _)
RuntimeLeaves(type, fieldNodes, path) ==
  IF Len(fieldNodes) = 0 THEN <<>>
  ELSE LET field == Head(fieldNodes)
           at == Append(path, ResponseKey(field))
           fieldDef == getFieldDef(type, field.name)
           here ==
             IF field.alias = StitchingTypename THEN <<>>
             ELSE IF Len(subschemaSetsByTypeAndField(type, field.name)) = 0 THEN <<>>
             ELSE IF ~field.hasSelectionSet THEN <<[path |-> at, type |-> type]>>
             ELSE IF fieldDef = NoFieldDef THEN <<>>
             ELSE RuntimeLeavesOver(RuntimeTypesOf(fieldDef.type), field.selections, at)
       IN  here \o RuntimeLeaves(type, Tail(fieldNodes), path)

RuntimeLeavesOver(types, selections, path) ==
  IF Len(types) = 0 THEN <<>>
  ELSE RuntimeLeaves(Head(types), _collectSubFields(Head(types), selections), path)
         \o RuntimeLeavesOver(Tail(types), selections, path)

\* the leaf fields a field plan for an object of the given type asks for:
\* those in the field nodes sent with each fetch, and those of the
\* supplemental plans of every stitch plan, of the plan and of its fetches
RECURSIVE PlanLeaves(_, _, _)
RECURSIVE SubschemaPlansLeaves(_, _, _)
RECURSIVE StitchPlansLeaves(_, _)
RECURSIVE StitchPlanLeaves(_, _)
PlanLeaves(plan, type, path) ==
  SubschemaPlansLeaves(plan.subschemaPlans, type, path)
    \o StitchPlansLeaves(plan.stitchPlans, path)

SubschemaPlansLeaves(subschemaPlans, type, path) ==
  IF Len(subschemaPlans) = 0 THEN <<>>
  ELSE RuntimeLeaves(type, Head(subschemaPlans).fieldNodes, path)
         \o StitchPlansLeaves(Head(subschemaPlans).stitchPlans, path)
         \o SubschemaPlansLeaves(Tail(subschemaPlans), type, path)

StitchPlansLeaves(stitchPlans, path) ==
  IF Len(stitchPlans) = 0 THEN <<>>
  ELSE StitchPlanLeaves(Head(stitchPlans).value, Append(path, Head(stitchPlans).key))
         \o StitchPlansLeaves(Tail(stitchPlans), path)

StitchPlanLeaves(stitchPlan, path) ==
  IF Len(stitchPlan) = 0 THEN <<>>
  ELSE PlanLeaves(Head(stitchPlan).fieldPlan, Head(stitchPlan).type, path)
         \o StitchPlanLeaves(Tail(stitchPlan), path)

\* the leaf fields of the operation
OperationLeaves == RuntimeLeaves("Query", _collectSubFields("Query", operation), <<>>)

\* C34: the selection split is a partition. Every leaf field of the
\* operation that some subschema defines, those of nested selection sets
\* included, is asked for by the finished plan, for each possible type of its
\* object: either with a fetch of the root plan (ownSelections) or in the
\* supplemental plan of a stitch plan (otherSelections). None is dropped,
\* none is asked for more often than the operation names it, and the plan
\* asks for no other leaf.
C34_SelectionSplitIsAPartition ==
  pc = "planned" =>
    LET planned == PlanLeaves(fieldPlan, "Query", <<>>) IN
    /\ \A i \in 1..Len(OperationLeaves) :
         /\ Occurrences(planned, OperationLeaves[i]) >= 1
         /\ Occurrences(planned, OperationLeaves[i])
              <= Occurrences(OperationLeaves, OperationLeaves[i])
    /\ \A i \in 1..Len(planned) : Occurrences(OperationLeaves, planned[i]) >= 1
\* ---- stitch plans attached to a SubschemaPlan ----
\* the SubschemaPlan asks for a field with every response key it has a
\* stitch plan under
AsksForItsStitchKeys(subschemaPlan) ==
  \A i \in 1..Len(subschemaPlan.stitchPlans) :
    /\ Len(subschemaPlan.fieldNodes) > 0
    /\ \E n \in 1..Len(subschemaPlan.fieldNodes) :
         ResponseKey(subschemaPlan.fieldNodes[n]) = subschemaPlan.stitchPlans[i].key

\* every SubschemaPlan of the plan and of the supplemental plans below it
RECURSIVE AttachedStitchPlansReachable(_)
AttachedStitchPlansReachable(plan) ==
  LET Below(stitchPlans) ==
        \A i \in 1..Len(stitchPlans) :
        \A j \in 1..Len(stitchPlans[i].value) :
          AttachedStitchPlansReachable(stitchPlans[i].value[j].fieldPlan)
  IN  /\ \A i \in 1..Len(plan.subschemaPlans) :
           /\ AsksForItsStitchKeys(plan.subschemaPlans[i])
           /\ Below(plan.subschemaPlans[i].stitchPlans)
      /\ Below(plan.stitchPlans)

\* C35: every stitch plan attached to a SubschemaPlan under response key k
\* is reachable at run time: the fieldNodes of that SubschemaPlan are not
\* empty and hold a field with response key k, in the root plan and in every
\* supplemental plan below it.
C35_AttachedStitchPlansAreReachable ==
  AttachedStitchPlansReachable(fieldPlan)
(***************************************************************************)
(* Part 14: objects of a possible type without a supplemental plan         *)
(*                                                                         *)
(* Operations over the interface Node in which only one of the possible    *)
(* types User and Item has fields of another subschema, beside one in      *)
(* which both have; every subschema answers with well-typed objects.       *)
(***************************************************************************)
OmittedTypeOperations ==
  { <<Comp("nodes", <<Leaf("id"), InlineFragment("User", <<Leaf("name"), Leaf("email")>>)>>)>>,
    <<Comp("node", <<Leaf("id"), InlineFragment("Item", <<Leaf("sku"), Leaf("price")>>)>>)>>,
    <<Comp("nodes", <<Leaf("id"),
                      InlineFragment("User", <<Leaf("name"), Leaf("email")>>),
                      InlineFragment("Item", <<Leaf("sku"), Leaf("price")>>)>>)>> }

InitOmittedType ==
  /\ superSchema = <<>>
  /\ coercion = <<>>
  /\ schema \in SchemaChoices
  /\ original = AnonymousQuery
  /\ operation \in OmittedTypeOperations
  /\ planFieldNodes = <<>>
  /\ fieldPlan = createRootFieldPlan(operation)
  /\ asyncSubschemas \in AsyncChoices
  /\ results \in { r \in ResultChoices(fieldPlan, asyncSubschemas) :
                     \A k \in DOMAIN r : r[k] # "badType" }
  /\ heap = <<NewObject("obj")>>
  /\ errors = <<>>
  /\ nulled = FALSE
  /\ promiseCount = 0
  /\ pending = <<>>
  /\ calls = <<>>
  /\ thrown = FALSE
  /\ log = <<>>
  /\ response = NoResponse
  /\ pc = "start"
  /\ EntryIdle
  /\ ConsolidatorIdle

SpecOmittedType == InitOmittedType /\ [][Next]_vars

\* an object marked with the name of an object type that has no field plan
\* in the stitch tree
OmittedObject(value, stitchTree) ==
  /\ value.t = "ref"
  /\ heap[value.r].kind = "obj"
  /\ StitchingTypename \in DOMAIN heap[value.r].f
  /\ heap[value.r].f[StitchingTypename].t = "scalar"
  /\ heap[value.r].f[StitchingTypename].s \in (TypeNames \ AbstractTypes)
  /\ StitchTreeIndex(stitchTree, heap[value.r].f[StitchingTypename].s) = 0

\* the paths of such objects under the stitch keys of a handled result
OmittedPaths(e) ==
  UNION { LET key == e.stitchTrees[i].key
              tree == e.stitchTrees[i].value
              value == heap[e.data].f[key]
          IN  IF key \notin DOMAIN heap[e.data].f THEN {}
              ELSE IF OmittedObject(value, tree) THEN {Append(e.path, key)}
              ELSE IF value.t = "ref" /\ heap[value.r].kind = "list"
              THEN { Append(Append(e.path, key), k) :
                       k \in { k \in DOMAIN heap[value.r].f :
                                 OmittedObject(heap[value.r].f[k], tree) } }
              ELSE {}
        : i \in 1..Len(e.stitchTrees) }

\* C36: where the stitch plan of a field of abstract type has no field plan
\* for the type of an object, because the supplemental plan of that possible
\* type was empty, walking the object is no failure and dispatches no
\* follow-up for it.
C36_OmittedTypeIsPassedOver ==
  \A i \in 1..Len(log) :
    (~log[i].failed /\ ~log[i].discarded /\ OmittedPaths(log[i]) # {}) =>
      /\ ~thrown
      /\ pc # "thrown"
      /\ \A j \in 1..Len(calls) : calls[j].path \notin OmittedPaths(log[i])
(***************************************************************************)
(* Part 15: null at a stitch point                                         *)
(*                                                                         *)
(* Runs in which a subschema answers null for an object, or for the last   *)
(* element of a list, that the plan has follow-ups for.                    *)
(***************************************************************************)
NullOutcomes == {"nullObject", "nullElement"}

NullSlotOperations ==
  { <<Comp("user", <<Leaf("name"), Leaf("email")>>)>>,
    <<Comp("items", <<Leaf("sku"), Leaf("price")>>)>>,
    <<Comp("user", <<Leaf("name"), Leaf("email")>>),
      Comp("items", <<Leaf("sku"), Leaf("price")>>)>>,
    <<Leaf("b"), Comp("items", <<Leaf("sku"), Leaf("price")>>)>> }

InitNullSlot ==
  /\ superSchema = <<>>
  /\ coercion = <<>>
  /\ schema \in SchemaChoices
  /\ original = AnonymousQuery
  /\ operation \in NullSlotOperations
  /\ planFieldNodes = <<>>
  /\ fieldPlan = createRootFieldPlan(operation)
  /\ asyncSubschemas \in AsyncChoices
  /\ results \in { r \in [FetchKeys(fieldPlan) ->
                            {"ok", "okErr", "reject"} \cup NullOutcomes] :
                     /\ Cardinality({k \in DOMAIN r : r[k] # "ok"}) <= MaxFaults
                     /\ \A k \in DOMAIN r : r[k] = "reject" => k[1] \in asyncSubschemas }
  /\ heap = <<NewObject("obj")>>
  /\ errors = <<>>
  /\ nulled = FALSE
  /\ promiseCount = 0
  /\ pending = <<>>
  /\ calls = <<>>
  /\ thrown = FALSE
  /\ log = <<>>
  /\ response = NoResponse
  /\ pc = "start"
  /\ EntryIdle
  /\ ConsolidatorIdle

SpecNullSlot == InitNullSlot /\ [][Next]_vars

\* the paths under the stitch keys of a handled result at which it holds
\* null: under the key itself, or as an element of the list under the key
NullSlots(e) ==
  UNION { LET key == e.stitchTrees[i].key
              value == heap[e.data].f[key]
          IN  IF key \notin DOMAIN heap[e.data].f THEN {}
              ELSE IF value.t = "null" THEN {Append(e.path, key)}
              ELSE IF value.t = "ref" /\ heap[value.r].kind = "list"
              THEN { Append(Append(e.path, key), k) :
                       k \in { k \in DOMAIN heap[value.r].f :
                                 heap[value.r].f[k].t = "null" } }
              ELSE {}
        : i \in 1..Len(e.stitchTrees) }

\* the paths of the objects that are elements of a list under a stitch key
SiblingSlots(e) ==
  UNION { LET key == e.stitchTrees[i].key
              value == heap[e.data].f[key]
          IN  IF key \notin DOMAIN heap[e.data].f THEN {}
              ELSE IF value.t = "ref" /\ heap[value.r].kind = "list"
              THEN { Append(Append(e.path, key), k) :
                       k \in { k \in DOMAIN heap[value.r].f :
                                 heap[value.r].f[k].t = "ref" } }
              ELSE {}
        : i \in 1..Len(e.stitchTrees) }

\* C37: when a result holds null under a stitch key, or a null element in a
\* stitched list, the walk is no failure, no follow-up is dispatched for the
\* null slot, and when the run has ended the slot is null in the response
\* while every sibling element has had its follow-ups.
C37_NullAtStitchPointIsSkipped ==
  \A i \in 1..Len(log) :
    (~log[i].failed /\ ~log[i].discarded /\ NullSlots(log[i]) # {}) =>
      /\ ~thrown
      /\ pc # "thrown"
      /\ \A j \in 1..Len(calls) : calls[j].path \notin NullSlots(log[i])
      /\ (pc = "done" /\ pending = <<>> /\ ~nulled) =>
           /\ \A p \in NullSlots(log[i]) :
                ValueAt(Deref(heap, Ref(FieldsId)), p).t = "null"
           /\ \A p \in SiblingSlots(log[i]) :
                \E j \in 1..Len(calls) : calls[j].path = p
(***************************************************************************)
(* Part 16: PlanResult.execute, promise by promise                         *)
(*                                                                         *)
(* planResult is a record: p the PlanResult object, the PromiseContext     *)
(* (hasPromiseContext, promiseCount, triggers: the calls of trigger()),    *)
(* awaiting: the entries of plan.map whose executor promise has not        *)
(* settled, rejecting: the subschemas whose promise rejects, handled: the  *)
(* entries whose result was handled, in order, and handledAtTrigger: how   *)
(* many had been handled when trigger() was called.                        *)
(***************************************************************************)
NewPromiseRun(rejecting) ==
  [ p |-> NewPlanResult, hasPromiseContext |-> FALSE, promiseCount |-> 0,
    triggers |-> 0, awaiting |-> {}, rejecting |-> rejecting,
    handled |-> <<>>, handledAtTrigger |-> 0 ]

\* the loop of execute() over plan.map, from entry i on
RECURSIVE ExecuteLoop(_, _, _, _)
ExecuteLoop(r, a, map, i) ==
  IF i > Len(map) THEN r
  ELSE IF map[i].subschema \in a.async
  THEN ExecuteLoop([r EXCEPT !.hasPromiseContext = TRUE,
                             !.promiseCount = @ + 1,
                             !.awaiting = @ \cup {i}], a, map, i + 1)
  ELSE ExecuteLoop([r EXCEPT !.p = _handlePossibleMultiPartResult(
                                      @, ExecutorResult(a, map[i])),
                             !.handled = Append(@, i)], a, map, i + 1)

\* result.then((resolved) => { ... }): the fulfilment handler of entry i
OnResolved(r, a, map, i) ==
  LET handledR == [r EXCEPT !.promiseCount = @ - 1,
                            !.p = _handlePossibleMultiPartResult(
                                     @, ExecutorResult(a, map[i])),
                            !.handled = Append(@, i),
                            !.awaiting = @ \ {i}]
  IN  IF handledR.promiseCount = 0
      THEN [handledR EXCEPT !.triggers = @ + 1,
                            !.handledAtTrigger = Len(handledR.handled)]
      ELSE handledR

PlanResultDocuments ==
  { <<Q1>>, <<Anonymous>>,
    <<OperationDefinition("query", "Q3", <<>>, <<Leaf("b"), Leaf("a"), Leaf("b")>>)>> }

PlanResultArgs ==
  [ document : PlanResultDocuments, operationName : {NoName},
    variableValues : {NoInputs}, subscribers : {{}},
    behaviour : BehaviourChoices,
    async : { {}, {"A"}, {"B"}, {"A", "B"} } ]

InitPlanResult ==
  /\ schema \in SchemaChoices
  /\ args \in PlanResultArgs
  /\ exeContext = <<>>
  /\ planMap = <<>>
  /\ invocations = <<>>
  /\ promised = <<>>
  /\ outcome = NoOutcome
  /\ entryPc = "start"
  /\ \E rejecting \in SUBSET args.async : planResult = NewPromiseRun(rejecting)
  /\ RunIdle
  /\ ConsolidatorIdle

\* execute(): the loop, then this._return() at once or after the promise of
\* the PromiseContext
PlanResultExecute ==
  /\ entryPc = "start"
  /\ LET context == buildExecutionContext(args) IN
     /\ context.operationContext
     /\ context.operation.operation # "subscription"
     /\ getRootType(context.operation.operation) # Undefined
     /\ exeContext' = context
     /\ LET map == _splitSelections(getRootType(context.operation.operation),
                                    context.operation.selections, <<>>)
            r == ExecuteLoop(planResult, args, map, 1)
        IN  /\ planMap' = map
            /\ invocations' = [i \in 1..Len(map) |-> Invocation("executor", map[i])]
            /\ planResult' = r
            /\ promised' = <<>>
            /\ IF r.hasPromiseContext
               THEN outcome' = NoOutcome /\ entryPc' = "executing"
               ELSE outcome' = _return(r.p) /\ entryPc' = "done"
  /\ UNCHANGED << schema, args, runVars, consolidator >>

\* the executor promise of entry i fulfils
ExecutorResolved(i) ==
  /\ entryPc \in {"executing", "done"}
  /\ i \in planResult.awaiting
  /\ planMap[i].subschema \notin planResult.rejecting
  /\ planResult' = OnResolved(planResult, args, planMap, i)
  /\ UNCHANGED << schema, args, exeContext, planMap, invocations, promised,
                  outcome, entryPc, runVars, consolidator >>

\* the executor promise of entry i rejects: result.then has no rejection
\* handler, nothing of the PlanResult runs
ExecutorRejected(i) ==
  /\ entryPc \in {"executing", "done"}
  /\ i \in planResult.awaiting
  /\ planMap[i].subschema \in planResult.rejecting
  /\ planResult' = [planResult EXCEPT !.awaiting = @ \ {i}]
  /\ UNCHANGED << schema, args, exeContext, planMap, invocations, promised,
                  outcome, entryPc, runVars, consolidator >>

\* this._promiseContext.promise.then(() => this._return())
PlanResultReturn ==
  /\ entryPc = "executing"
  /\ planResult.triggers > 0
  /\ Return(_return(planResult.p))
  /\ UNCHANGED << schema, args, exeContext, planMap, invocations, runVars,
                  consolidator >>

NextPlanResult ==
  \/ PlanResultExecute
  \/ \E i \in 1..Len(planMap) : ExecutorResolved(i)
  \/ \E i \in 1..Len(planMap) : ExecutorRejected(i)
  \/ PlanResultReturn

SpecPlanResult == InitPlanResult /\ [][NextPlanResult]_vars

\* every executor promise settles, and promise reactions run
SpecPlanResultFair ==
  /\ SpecPlanResult
  /\ \A i \in 1..2 : WF_vars(ExecutorResolved(i)) /\ WF_vars(ExecutorRejected(i))
  /\ WF_vars(PlanResultReturn)

\* C38: when every executor promise settles, by fulfilling or by rejecting,
\* PlanResult.execute() eventually returns a response; the counter of pending
\* promises is then zero, trigger() was called exactly once, and it was
\* called after the result of every promise had been handled.
C38_PlanResultEventuallyReturns ==
  /\ (entryPc = "executing") ~> (entryPc = "done" /\ outcome # NoOutcome)
  /\ [](planResult.triggers <= 1)
  /\ []((entryPc = "done" /\ planResult.hasPromiseContext)
          => /\ planResult.promiseCount = 0
             /\ planResult.triggers = 1
             /\ planResult.handledAtTrigger = Len(planMap))
(***************************************************************************)
(* Part 17: a source of the Consolidator fails                             *)
(*                                                                         *)
(* A failing source rejects the read that follows its last value. The      *)
(* rejection handler stops the Repeater with the error; the coroutine of   *)
(* the source stays suspended on its advance until stop.then(...) runs.    *)
(***************************************************************************)
\* a rejection handler that stops the Repeater without the error
_stop_WithoutError(k, i) ==
  [k EXCEPT !.stopCalled = TRUE,
            !.coroutine[i] = "awaitAdvance",
            !.failed = TRUE,
            !.heldAtFailure = IF k.failed THEN @ ELSE k._asyncIterators,
            !.pushedAtFailure = IF k.failed THEN @ ELSE Len(k.emitted) + Len(k.pushes)]

\* (err) => this._stop(err); stopping a stopped Repeater changes nothing
_stop(k, i) ==
  [k EXCEPT !.stopCalled = TRUE,
            !.err = IF k.stopCalled THEN @ ELSE i,
            !.coroutine[i] = "awaitAdvance",
            !.failed = TRUE,
            !.heldAtFailure = IF k.failed THEN @ ELSE k._asyncIterators,
            !.pushedAtFailure = IF k.failed THEN @ ELSE Len(k.emitted) + Len(k.pushes)]

InitFailing ==
  /\ schema = SchemaSplit
  /\ RunIdle
  /\ EntryIdle
  /\ \E asyncIterables \in {{1}, {1, 2}} :
     \E lengths \in [Sources -> 0..MaxValues] :
     \E failing \in SUBSET Sources :
       consolidator = [NewConsolidator(asyncIterables, lengths, "identity")
                         EXCEPT !.failing = failing]

\* asyncIterator.next() of source i rejects
Fail(i) ==
  /\ consolidator.coroutine[i] = "awaitNext"
  /\ i \in consolidator.failing
  /\ consolidator.read[i] = consolidator.length[i]
  /\ Step(_stop(consolidator, i))

NextFailing == NextConsolidator \/ \E i \in Sources : Fail(i)

SpecFailing == InitFailing /\ [][NextFailing]_vars

\* as SpecConsolidatorFair, and a failing source rejects its read
SpecFailingFair ==
  /\ SpecFailing
  /\ WF_vars(FirstPull) /\ WF_vars(Consume) /\ WF_vars(End)
  /\ \A i \in Sources :
       /\ WF_vars(Advance(i)) /\ WF_vars(AfterPush(i)) /\ WF_vars(ReturnSettled(i))
       /\ WF_vars(Fail(i))
  /\ WF_vars(PromiseAllResolved) /\ WF_vars(SignalResolved) /\ WF_vars(StopObserved)

\* the stream has ended with the error the Repeater was stopped with
EndedWithError ==
  /\ consolidator.ended
  /\ consolidator.err # 0
  /\ consolidator.endError = consolidator.err

\* every source held when the read rejected has had its return hook called
ReturnedAfterFailure ==
  \A i \in consolidator.heldAtFailure : consolidator.returnCalls[i] = 1

====
